---------------------------- MODULE Spec2Model ----------------------------
(***************************************************************************)
(* A model of the low-degree (FRI) prover and verifier of genSTARK and of  *)
(* the STARK prover/verifier that drives it.                               *)
(*                                                                         *)
(* Vectors and buffers are sequences; the code's 0-based index i is the    *)
(* sequence index i + 1 (operator at).  A buffer is the sequence of the    *)
(* field elements it encodes, a digest is the sequence built by digest /   *)
(* MerkleNode below (an injective, collision-free hash).                   *)
(***************************************************************************)
EXTENDS Integers, Sequences, FiniteSets, Bags, TLC

(***************************************************************************)
(* The finite field (context.field): the prime field of order 3*2^12 + 1,  *)
(* whose multiplicative group has a subgroup of order 2^12.                *)
(***************************************************************************)
modulus == 3 * (2 ^ 12) + 1

mul(a, b) == (a * b) % modulus

add(a, b) == (a + b) % modulus

sub(a, b) == ((a - b) + modulus) % modulus

neg(a) == (modulus - a) % modulus

\* a value is computed by the statement that assigns it, before the statements
\* that follow it are executed
computed(v) == v = v

\* h^4 * m
fourthTimes(h, m) == CASE computed(h) -> mul(mul(mul(h, h), mul(h, h)), m)

\* b^e, two bits of the exponent at a time
RECURSIVE exp(_, _)
exp(b, e) ==
    IF e = 0 THEN 1
    ELSE fourthTimes(exp(b, e \div 4),
                     CASE e % 4 = 0 -> 1
                       [] e % 4 = 1 -> b
                       [] e % 4 = 2 -> mul(b, b)
                       [] OTHER     -> mul(mul(b, b), b))

\* the inverses of 0, 1, ..., modulus - 1, computed once
inverses == [k \in 1..modulus |-> exp(k - 1, modulus - 2)] \o <<>>

\* inv(0) is 0, as in the field backend
inv(a) == inverses[a + 1]

div(a, b) == mul(a, inv(b))

\* 11 generates the multiplicative group; its cube has order 2^12
MaxRootOrder == 2 ^ 12

getRootOfUnity(order) == exp(11, (modulus - 1) \div order)

(***************************************************************************)
(* Vectors and matrices of the field backend.                              *)
(***************************************************************************)
\* an explicit tuple of a function over 1..n
Vec(s) == s \o <<>>

at(v, i) == v[i + 1]

\* the integers lo..hi as an ascending sequence
Range(lo, hi) == Vec([k \in 1..(hi - lo + 1) |-> lo + k - 1])

\* [1, seed, seed^2, ...]
getPowerSeries(seed, length) == Vec([i \in 1..length |-> exp(seed, i - 1)])

\* transposeVector(v, 4, step): row i is v[(i + j * rowCount) * step], j = 0..3,
\* with rowCount = length / (4 * step)
transposeVector(v, n, step) ==
    LET rowCount == n \div (4 * step)
    IN  Vec([i \in 1..rowCount |->
            << at(v, (i - 1) * step),
               at(v, (i - 1 + rowCount) * step),
               at(v, (i - 1 + 2 * rowCount) * step),
               at(v, (i - 1 + 3 * rowCount) * step) >>])

\* joinMatrixRows(transposeMatrix(m)): column 0, then column 1, ...
joinTransposed(m, rowCount) ==
    Vec([k \in 1..(4 * rowCount) |->
            m[((k - 1) % rowCount) + 1][((k - 1) \div rowCount) + 1]])

\* rowsToBuffers(positions): the rows at the given positions, in that order
rowsToBuffers(m, positions) ==
    Vec([k \in 1..Len(positions) |-> m[positions[k] + 1]])

\* the cubic through (xs[j], ys[j]), j = 1..4, as coefficients c0..c3
interpolateQuartic(xs, ys) ==
    LET basis(a, b, c, xi, yi) ==
            LET w == div(yi, mul(mul(sub(xi, a), sub(xi, b)), sub(xi, c)))
            IN  << mul(w, neg(mul(mul(a, b), c))),
                   mul(w, add(add(mul(a, b), mul(a, c)), mul(b, c))),
                   mul(w, neg(add(add(a, b), c))),
                   w >>
        b1 == basis(xs[2], xs[3], xs[4], xs[1], ys[1])
        b2 == basis(xs[1], xs[3], xs[4], xs[2], ys[2])
        b3 == basis(xs[1], xs[2], xs[4], xs[3], ys[3])
        b4 == basis(xs[1], xs[2], xs[3], xs[4], ys[4])
    IN  [k \in 1..4 |-> add(add(b1[k], b2[k]), add(b3[k], b4[k]))]

evalQuartic(c, x) ==
    add(c[1], mul(x, add(c[2], mul(x, add(c[3], mul(x, c[4]))))))

interpolateQuarticBatch(xm, ym, rowCount) ==
    Vec([i \in 1..rowCount |-> Vec(interpolateQuartic(xm[i], ym[i]))])

evalQuarticBatch(polys, x, rowCount) ==
    Vec([i \in 1..rowCount |-> evalQuartic(polys[i], x)])


\* the sum of the naturals s[1], ..., s[n]: the size of the bag that holds
\* s[k] + 1 copies of k, less one copy of each
Sum(s) ==
    IF DOMAIN s = {} THEN 0
    ELSE BagCardinality([k \in DOMAIN s |-> s[k] + 1]) - Cardinality(DOMAIN s)

\* sum and product of f(lo), ..., f(hi) in the field
sumOver(f(_), lo, hi) == Sum([k \in lo..hi |-> f(k) % modulus]) % modulus

RECURSIVE productOver(_, _, _)
productOver(f(_), lo, hi) ==
    IF lo > hi THEN 1
    ELSE IF lo = hi THEN f(lo) % modulus
    ELSE LET mid == (lo + hi) \div 2
         IN  mul(productOver(f, lo, mid), productOver(f, mid + 1, hi))

\* interpolate(xs, ys): the polynomial of degree < Len(xs) through the points,
\* kept in barycentric form (its nodes, values and weights)
interpolate(xs, ys) ==
    LET n == Len(xs)
        weight(i) ==
            LET diff(j) == IF j = i THEN 1 ELSE sub(xs[i], xs[j])
            IN  div(ys[i], productOver(diff, 1, n))
    IN  [xs |-> xs, ys |-> ys, ws |-> Vec([i \in 1..n |-> weight(i)])]

\* evalPolyAt(poly, x): the value of that polynomial at x
evalPolyAt(poly, x) ==
    LET n == Len(poly.xs)
        hit == {i \in 1..n : poly.xs[i] = x}
        factor(j) == sub(x, poly.xs[j])
        term(i) == div(poly.ws[i], sub(x, poly.xs[i]))
    IN  IF hit # {} THEN poly.ys[CHOOSE i \in hit : TRUE]
        ELSE mul(productOver(factor, 1, n), sumOver(term, 1, n))

(***************************************************************************)
(* The hash function and the Merkle tree (@guildofweavers/merkle).         *)
(***************************************************************************)
\* hash.digest(buffer)
digest(buffer) == <<0>> \o buffer

\* the digest of an interior node
MerkleNode(l, r) == <<1, Len(l)>> \o l \o r

\* hash.digestValues(matrix.toBuffer(), rowSize): one digest per row
digestValues(m, rowCount) == Vec([i \in 1..rowCount |-> digest(m[i])])

\* the levels of the tree over the given leaves, the leaves first, the root last
RECURSIVE MerkleLevels(_, _)
MerkleLevels(level, width) ==
    IF width <= 1 THEN << level >>
    ELSE LET up == Vec([j \in 1..(width \div 2) |->
                        MerkleNode(level[2 * j - 1], level[2 * j])])
         IN  << level >> \o MerkleLevels(up, width \div 2)

RECURSIVE Log2(_)
Log2(n) == IF n <= 1 THEN 0 ELSE 1 + Log2(n \div 2)

\* MerkleTree.create(leaves, hash)
MerkleTreeCreate(leaves, count) ==
    LET levels == MerkleLevels(leaves, count)
    IN  [levels |-> levels, depth |-> Log2(count), root |-> levels[Log2(count) + 1][1]]

\* the elements of a finite set of integers, ascending
RECURSIVE SortedSeq(_)
SortedSeq(S) ==
    IF S = {} THEN <<>>
    ELSE LET m == CHOOSE x \in S : \A y \in S : x <= y
         IN  <<m>> \o SortedSeq(S \ {m})

sibling(i) == IF i % 2 = 0 THEN i + 1 ELSE i - 1

\* the interior digests a batch proof needs, level by level from the leaves up,
\* left to right, each once
RECURSIVE batchNodes(_, _, _)
batchNodes(levels, known, l) ==
    IF l >= Len(levels) THEN <<>>
    ELSE LET need == SortedSeq({sibling(i) : i \in known} \ known)
         IN  [k \in 1..Len(need) |-> levels[l][need[k] + 1]]
             \o batchNodes(levels, {i \div 2 : i \in known}, l + 1)

\* tree.proveBatch(positions)
proveBatch(tree, positions) ==
    [ values |-> Vec([k \in 1..Len(positions) |-> tree.levels[1][positions[k] + 1]]),
      nodes  |-> batchNodes(tree.levels, {positions[k] : k \in 1..Len(positions)}, 1),
      depth  |-> tree.depth ]

\* the root a batch proof reconstructs: known maps the authenticated indexes of
\* the current level to their digests; <<>> when the proof runs out of nodes
RECURSIVE batchRoot(_, _, _)
batchRoot(known, nodes, levelsLeft) ==
    IF levelsLeft = 0 THEN known[0]
    ELSE LET have == DOMAIN known
             need == SortedSeq({sibling(i) : i \in have} \ have)
             value(i) ==
                 IF i \in have THEN known[i]
                 ELSE nodes[CHOOSE k \in 1..Len(need) : need[k] = i]
         IN  IF Len(nodes) < Len(need) THEN <<>>
             ELSE batchRoot([q \in {i \div 2 : i \in have} |->
                                MerkleNode(value(2 * q), value(2 * q + 1))],
                            SubSeq(nodes, Len(need) + 1, Len(nodes)),
                            levelsLeft - 1)

\* MerkleTree.verifyBatch(root, positions, proof, hash)
verifyBatch(root, positions, proof) ==
    LET n == Len(positions)
        P == {positions[k] : k \in 1..n}
    IN  /\ Len(proof.values) = n
        /\ Cardinality(P) = n
        /\ \A p \in P : p >= 0 /\ p < 2 ^ proof.depth
        /\ batchRoot([p \in P |-> proof.values[CHOOSE k \in 1..n : positions[k] = p]],
                     proof.nodes, proof.depth) = root

(***************************************************************************)
(* Pseudo-random values derived from a seed: field.prng and the query      *)
(* index generator (Fiat-Shamir).                                          *)
(***************************************************************************)
\* the seed compressed to one word: a position-weighted sum of its words
absorb(seed) ==
    Sum([k \in 1..Len(seed) |-> (seed[k] * ((k % 61) + 1)) % modulus]) % modulus

\* field.prng(seed): one field element
prng(seed) == add(mul(absorb(seed), 7), 3)

\* field.prng(seed, count): a vector of count field elements
prngVector(seed, count) ==
    LET a == absorb(seed)
    IN  Vec([k \in 1..count |-> add(mul(a, 7 + 2 * k), 5 * k)])

\* the j-th word of the stream expanded from the seed, reduced modulo max
streamIndex(a, j, max) ==
    (((a + 1) * (3 * j + 1) + 977 * j * j) % modulus) % max

\* count distinct indexes in [0, max), skipping the multiples of exclude (when
\* exclude > 0), in the order the stream yields them; the counter j is capped
RECURSIVE generateIndexes(_, _, _, _, _, _)
generateIndexes(a, count, max, exclude, j, acc) ==
    IF Len(acc) >= count \/ j >= 4 * count + 16 THEN acc
    ELSE LET v == streamIndex(a, j, max)
             skip == \/ \E k \in 1..Len(acc) : acc[k] = v
                     \/ (exclude > 0 /\ v % exclude = 0)
         IN  generateIndexes(a, count, max, exclude, j + 1,
                             IF skip THEN acc ELSE Append(acc, v))

\* getPseudorandomIndexes(seed, count, max, excludeMultiplesOf)
getPseudorandomIndexes(seed, count, max, exclude) ==
    generateIndexes(absorb(seed), count, max, exclude, 0, <<>>)

(***************************************************************************)
(* Bounds of the model.                                                    *)
(***************************************************************************)
\* idxGenerator.friQueryCount and idxGenerator.exeQueryCount
FriQueryCount == 2

ExeQueryCount == 2

\* the input vectors tried per configuration
InputCount == 2

(***************************************************************************)
(* LowDegreeProver: constants and helper functions.                        *)
(***************************************************************************)
MAX_REMAINDER_LENGTH == 256

REMAINDER_SLOTS == Log2(MAX_REMAINDER_LENGTH) \div 2

Min(a, b) == IF a < b THEN a ELSE b

\* round up log(valueCount, 4), less the remainder slots, capped by Math.min
getComponentCount(valueCount) ==
    LET result == ((Log2(valueCount) + 1) \div 2) - REMAINDER_SLOTS
    IN  Min(result, 0)

\* the same expression of the older prove(): Math.min(ceil(log2 / 2) - 4, 0)
componentCountOld(valueCount) ==
    Min(((Log2(valueCount) + 1) \div 2) - 4, 0)

RECURSIVE getRootOfUnityDegree(_)
getRootOfUnityDegree(rootOfUnity) ==
    IF rootOfUnity = 1 THEN 1
    ELSE 2 * getRootOfUnityDegree(mul(rootOfUnity, rootOfUnity))

\* an array filled in the order of the positions, repetitions kept
getAugmentedPositionsRepeated(positions, columnLength) ==
    Vec([k \in 1..Len(positions) |-> positions[k] % (columnLength \div 4)])

\* a Set filled in the order of the positions, as an array
getAugmentedPositions(positions, columnLength) ==
    LET rowLength == columnLength \div 4
        n == Len(positions)
        r == [k \in 1..n |-> positions[k] % rowLength]
        first == SelectSeq(Range(1, n), LAMBDA k : \A j \in 1..(k - 1) : r[j] # r[k])
    IN  Vec([i \in 1..Len(first) |-> r[first[i]]])

\* idxGenerator.getFriIndexes(seed, columnLength)
getFriIndexes(seed, columnLength) ==
    getPseudorandomIndexes(seed, Min(FriQueryCount, columnLength), columnLength, 0)

\* idxGenerator.getExeIndexes(seed, domainSize)
getExeIndexes(seed, domainSize, extensionFactor) ==
    getPseudorandomIndexes(seed, ExeQueryCount, domainSize, extensionFactor)

\* how a call ends: it returns (nothing, or a value) or it throws an error
Ok == [kind |-> "return"]

Returns(v) == [kind |-> "return", value |-> v]

Throws(type, message, n) == [kind |-> "throw", type |-> type, msg |-> message, at |-> n]

\* the value 'undefined' where a number is expected makes the field backend throw
TypeError == Throws("TypeError", "undefined value", 0)

\* new Array(n) with n < 0
RangeError == Throws("RangeError", "Invalid array length", 0)

StarkError(message, n) == Throws("StarkError", message, n)

RemainderError(maxDegreePlus1) ==
    StarkError("Remainder is not a valid degree polynomial", maxDegreePlus1 - 1)

\* a verifyRemainder that checks nothing
verifyRemainderUnchecked(remainder, maxDegreePlus1, rootOfUnity, extensionFactor) == Ok

\* verifyRemainder: Ok when it returns, the error it throws otherwise
verifyRemainder(remainder, maxDegreePlus1, rootOfUnity, extensionFactor) ==
    LET length == Len(remainder)
        positions == SelectSeq(Range(0, length - 1),
                        LAMBDA i : extensionFactor = 0 \/ i % extensionFactor # 0)
        domain == getPowerSeries(rootOfUnity, length)
        xs == Vec([i \in 1..maxDegreePlus1 |-> at(domain, positions[i])])
        ys == Vec([i \in 1..maxDegreePlus1 |-> at(remainder, positions[i])])
        poly == interpolate(xs, ys)
    IN  IF maxDegreePlus1 > Len(positions) THEN TypeError
        ELSE IF \A i \in (maxDegreePlus1 + 1)..Len(positions) :
                    evalPolyAt(poly, at(domain, positions[i])) = at(remainder, positions[i])
             THEN Ok
             ELSE RemainderError(maxDegreePlus1)

\* the termination test without the column count
friStopsByRows(version, rowCount) == rowCount <= MAX_REMAINDER_LENGTH

\* a termination test that lets the recursion go on down to a single row
friStopsAtOneRow(version, rowCount) == rowCount <= 1

\* the older fri() stops at values.rowCount <= 64, the newer one at
\* rowCount * colCount <= MAX_REMAINDER_LENGTH
friStops(version, rowCount) ==
    IF version = "old" THEN rowCount <= 64
    ELSE rowCount * 4 <= MAX_REMAINDER_LENGTH

NoMerkleProof == [values |-> <<>>, nodes |-> <<>>, depth |-> 0]

NoProof == [lcRoot |-> <<>>, lcProof |-> NoMerkleProof, components |-> <<>>, remainder |-> <<>>]

\* tree.proveBatch(positions) with the hashed values swapped for the un-hashed rows
proveBatchValues(tree, matrix, positions) ==
    [proveBatch(tree, positions) EXCEPT !.values = rowsToBuffers(matrix, positions)]

\* fri(), the branch that ends the recursion: the remainder and how
\* verifyRemainder ended
friRemainderChecked(remainder, maxDegreePlus1, rootOfUnity, extensionFactor) ==
    [ components |-> <<>>,
      remainder  |-> remainder,
      error      |-> verifyRemainder(remainder, maxDegreePlus1, rootOfUnity, extensionFactor) ]

\* fri(): the root of unity of the remainder's domain
friRootOfUnity(domain, depth) == exp(at(domain, 1), 4 ^ depth)

friRemainder(polyValues, rowCount, maxDegreePlus1, depth, domain, extensionFactor) ==
    friRemainderChecked(joinTransposed(polyValues, rowCount), maxDegreePlus1,
                        friRootOfUnity(domain, depth), extensionFactor)

\* fri(): the column of the row polynomials' values at the pseudo-random x
friColumn(pTree, polyValues, rowCount, depth, domain) ==
    evalQuarticBatch(
        interpolateQuarticBatch(transposeVector(domain, Len(domain), 4 ^ depth),
                                polyValues, rowCount),
        prng(pTree.root), rowCount)

\* fri(): the proof component of this depth
friComponentAt(pTree, polyValues, newPolyValues, cTree, positions, augmentedPositions) ==
    [ columnRoot  |-> cTree.root,
      columnProof |-> proveBatchValues(cTree, newPolyValues, augmentedPositions),
      polyProof   |-> proveBatchValues(pTree, polyValues, positions) ]

friComponent(pTree, polyValues, newPolyValues, cTree, columnLength, positions) ==
    friComponentAt(pTree, polyValues, newPolyValues, cTree, positions,
                   getAugmentedPositions(positions, columnLength))

\* fri(): result.components[depth] is assigned after the recursive call has
\* returned; when that call throws, the error goes up unchanged
friAssign(component, rest) ==
    IF rest.error # Ok THEN rest
    ELSE [ components |-> << component >> \o rest.components,
           remainder  |-> rest.remainder,
           error      |-> Ok ]

\* fri(): the degree bound it passes to the next depth
friMaxDegreePlus1(maxDegreePlus1) == maxDegreePlus1 \div 4

\* fri(pTree, polyValues, maxDegreePlus1, depth, domain, result): what it leaves
\* in result (components from this depth on, remainder) and the error it throws
RECURSIVE fri(_, _, _, _, _, _, _, _)
friRecurse(version, pTree, polyValues, rowCount, maxDegreePlus1, depth, domain, extensionFactor, newPolyValues, cTree) ==
    CASE computed(newPolyValues) /\ computed(cTree) ->
        friAssign(friComponent(pTree, polyValues, newPolyValues, cTree, rowCount,
                               getFriIndexes(cTree.root, rowCount)),
                  fri(version, cTree, newPolyValues, rowCount \div 4,
                      friMaxDegreePlus1(maxDegreePlus1), depth + 1, domain, extensionFactor))

friLayer(version, pTree, polyValues, rowCount, maxDegreePlus1, depth, domain, extensionFactor, newPolyValues) ==
    friRecurse(version, pTree, polyValues, rowCount, maxDegreePlus1, depth, domain,
               extensionFactor, newPolyValues,
               MerkleTreeCreate(digestValues(newPolyValues, rowCount \div 4), rowCount \div 4))

fri(version, pTree, polyValues, rowCount, maxDegreePlus1, depth, domain, extensionFactor) ==
    CASE computed(pTree) /\ computed(polyValues) ->
        IF friStops(version, rowCount)
        THEN friRemainder(polyValues, rowCount, maxDegreePlus1, depth, domain, extensionFactor)
        ELSE friLayer(version, pTree, polyValues, rowCount, maxDegreePlus1, depth, domain,
                      extensionFactor,
                      transposeVector(friColumn(pTree, polyValues, rowCount, depth, domain),
                                      rowCount, 1))

\* prove(): new Array(componentCount) throws on a negative count; otherwise the
\* proof object is what fri() has filled in
proofObject(componentCount, lcRoot, lcProof, result) ==
    IF componentCount < 0 THEN [error |-> RangeError, proof |-> NoProof]
    ELSE IF result.error # Ok THEN [error |-> result.error, proof |-> NoProof]
    ELSE [ error |-> Ok,
           proof |-> [ lcRoot     |-> lcRoot,
                       lcProof    |-> lcProof,
                       components |-> result.components,
                       remainder  |-> result.remainder ] ]

\* prove(): the linear combination spot checks
proveLc(pTree, polyValues, domain, valueCount, extensionFactor) ==
    proveBatchValues(pTree, polyValues,
        getAugmentedPositions(getExeIndexes(pTree.root, Len(domain), extensionFactor),
                              valueCount))

proveOver(pTree, polyValues, valueCount, domain, maxDegreePlus1, extensionFactor) ==
    proofObject(getComponentCount(valueCount), pTree.root,
                proveLc(pTree, polyValues, domain, valueCount, extensionFactor),
                fri("new", pTree, polyValues, valueCount \div 4, maxDegreePlus1, 0, domain,
                    extensionFactor))

proveTree(polyValues, valueCount, domain, maxDegreePlus1, extensionFactor) ==
    proveOver(MerkleTreeCreate(digestValues(polyValues, valueCount \div 4), valueCount \div 4),
              polyValues, valueCount, domain, maxDegreePlus1, extensionFactor)

\* prove(cEvaluations, domain, maxDegreePlus1): the proof it returns and Ok,
\* or the error it throws
prove(cEvaluations, domain, maxDegreePlus1, extensionFactor) ==
    proveTree(transposeVector(cEvaluations, Len(cEvaluations), 1), Len(cEvaluations),
              domain, maxDegreePlus1, extensionFactor)

\* the older prove(lTree, values, domain, maxDegreePlus1)
proveOld(lTree, values, rowCount, domain, maxDegreePlus1, extensionFactor) ==
    proofObject(componentCountOld(4 * rowCount), <<>>, NoMerkleProof,
                fri("old", lTree, values, rowCount, maxDegreePlus1, 0, domain,
                    extensionFactor))

(***************************************************************************)
(* LowDegreeProver.verify, one group of checks at a time.  A frame holds   *)
(* the proof object the call was given, the call's local variables, the    *)
(* checks executed so far and, once the call has ended, its outcome.       *)
(***************************************************************************)
Undefined == 0 - 1

\* readBigInt(buffer, offset, elementSize) with offset = k * elementSize
readBigInt(buffer, k) == IF k < Len(buffer) THEN at(buffer, k) ELSE Undefined

\* parsePolyValues with the offset not advanced after the third value
parsePolyValuesStuckOffset(buffers) ==
    Vec([b \in 1..Len(buffers) |->
            << readBigInt(buffers[b], 0), readBigInt(buffers[b], 1),
               readBigInt(buffers[b], 2), readBigInt(buffers[b], 2) >>])

parsePolyValues(buffers) ==
    Vec([b \in 1..Len(buffers) |->
            << readBigInt(buffers[b], 0), readBigInt(buffers[b], 1),
               readBigInt(buffers[b], 2), readBigInt(buffers[b], 3) >>])

\* parseColumnValues with the offset left at the first value of the row
parseColumnValuesFirstValue(buffers, positions, augmentedPositions, columnLength) ==
    Vec([k \in 1..Len(positions) |-> readBigInt(buffers[1], 0)])

parseColumnValues(buffers, positions, augmentedPositions, columnLength) ==
    LET rowLength == columnLength \div 4
        value(position) ==
            LET found == {i \in 1..Len(augmentedPositions) :
                             augmentedPositions[i] = position % rowLength}
                idx == IF found = {} THEN 0 ELSE CHOOSE i \in found : \A j \in found : i <= j
            IN  IF idx = 0 \/ idx > Len(buffers) THEN Undefined
                ELSE readBigInt(buffers[idx], position \div rowLength)
    IN  Vec([k \in 1..Len(positions) |-> value(positions[k])])

\* the older hashBuffers(values, hash)
hashBuffers(values) == Vec([i \in 1..Len(values) |-> digest(values[i])])

\* utils.rehashMerkleProofValues(proof, hash): a new proof object
rehashMerkleProofValues(proof) ==
    [ values |-> hashBuffers(proof.values),
      nodes  |-> proof.nodes,
      depth  |-> proof.depth ]

\* the conditions verify throws on when they are false
lcProofHolds(lcRoot, lcPositions, lcProof) == verifyBatch(lcRoot, lcPositions, lcProof)

lcValuesHold(lcValues, lcChecks) ==
    \A i \in 1..Len(lcValues) : i <= Len(lcChecks) /\ lcValues[i] = lcChecks[i]

\* the column Merkle proof check left out
columnProofUnchecked(columnRoot, augmentedPositions, columnProof) == TRUE

columnProofHolds(columnRoot, augmentedPositions, columnProof) ==
    verifyBatch(columnRoot, augmentedPositions, columnProof)

polyProofHolds(pRoot, positions, polyProof) == verifyBatch(pRoot, positions, polyProof)

foldHolds(pEvaluations, columnValues, rowCount) ==
    \A i \in 1..rowCount : i <= Len(columnValues) /\ pEvaluations[i] = columnValues[i]

\* the comparison of the remainder's Merkle root left out
remainderRootUnchecked(root, pRoot) == TRUE

remainderRootHolds(root, pRoot) == root = pRoot

Check(name, depth) == [check |-> name, depth |-> depth]

\* the frame of a call that ends with outcome o after the checks cs
End(f, cs, o) == [f EXCEPT !.pc = "done", !.log = f.log \o cs, !.outcome = o]

Running == [kind |-> "running"]

\* verify(proof, lcValues, exeQueryPositions, maxDegreePlus1) of the newer prover,
\* verify(lRoot, maxDegreePlus1, rootOfUnity, proof) of the older one: the locals
\* before the first check
verifyBegin(version, proof, a) ==
    LET degree == getRootOfUnityDegree(a.rootOfUnity)
    IN  [ version |-> version,
          proof |-> proof,
          args |-> a,
          pc |-> IF version = "new" THEN "lc"
                 ELSE IF Len(proof.components) > 0 THEN "component" ELSE "remainder",
          rootOfUnity |-> a.rootOfUnity,
          columnLength |-> IF version = "new" THEN degree ELSE degree \div 4,
          quarticRootsOfUnity |-> << 1,
                                     exp(a.rootOfUnity, degree \div 4),
                                     exp(a.rootOfUnity, degree \div 2),
                                     exp(a.rootOfUnity, (degree * 3) \div 4) >>,
          maxDegreePlus1 |-> a.maxDegreePlus1,
          pRoot |-> IF version = "new" THEN proof.lcRoot ELSE a.lRoot,
          depth |-> 0,
          log |-> <<>>,
          outcome |-> Running ]

\* verify(): the degree bound after a component
verifyMaxDegreePlus1(maxDegreePlus1) == maxDegreePlus1 \div 4

\* 1 ----- check correctness of linear combination
verifyLinearCombination(f) ==
    LET lcPositions == getAugmentedPositions(f.args.exeQueryPositions, f.columnLength)
        lcChecks == parseColumnValues(f.proof.lcProof.values, f.args.exeQueryPositions,
                                      lcPositions, f.columnLength)
        lcProof == rehashMerkleProofValues(f.proof.lcProof)
        cMerkle == Check("lcMerkle", 0)
        cValues == Check("lcValues", 0)
    IN  IF \E i \in 1..Len(lcChecks) : lcChecks[i] = Undefined
        THEN End(f, <<>>, TypeError)
        ELSE IF ~lcProofHolds(f.proof.lcRoot, lcPositions, lcProof)
        THEN End(f, << cMerkle >>,
                 StarkError("Verification of linear combination Merkle proof failed", 0))
        ELSE IF ~lcValuesHold(f.args.lcValues, lcChecks)
        THEN End(f, << cMerkle, cValues >>,
                 StarkError("Verification of linear combination correctness failed", 0))
        ELSE [f EXCEPT !.pc = IF Len(f.proof.components) > 0 THEN "component"
                              ELSE "remainder",
                       !.log = f.log \o << cMerkle, cValues >>,
                       !.columnLength = f.columnLength \div 4]

\* the older verify assigns the hashed values to the proof's own columnProof and
\* polyProof; the newer one rehashes into a new proof object
assignColumnValues(f, hashed) ==
    IF f.version = "old"
    THEN [f EXCEPT !.proof.components[f.depth + 1].columnProof.values = hashed]
    ELSE f

assignPolyValues(f, hashed) ==
    IF f.version = "old"
    THEN [f EXCEPT !.proof.components[f.depth + 1].polyProof.values = hashed]
    ELSE f

\* 2 ----- one iteration of the loop over proof.components
verifyComponent(f) ==
    LET depth == f.depth
        component == f.proof.components[depth + 1]
        columnRoot == component.columnRoot
        positions == getFriIndexes(columnRoot, f.columnLength)
        augmentedPositions == getAugmentedPositions(positions, f.columnLength)
        columnValues == parseColumnValues(component.columnProof.values, positions,
                                          augmentedPositions, f.columnLength)
        columnProof == rehashMerkleProofValues(component.columnProof)
        f1 == assignColumnValues(f, columnProof.values)
        polyValues == parsePolyValues(component.polyProof.values)
        polyProof == rehashMerkleProofValues(component.polyProof)
        f2 == assignPolyValues(f1, polyProof.values)
        xs == Vec([i \in 1..Len(positions) |->
                    LET xe == exp(f.rootOfUnity, positions[i])
                    IN  << mul(f.quarticRootsOfUnity[1], xe),
                           mul(f.quarticRootsOfUnity[2], xe),
                           mul(f.quarticRootsOfUnity[3], xe),
                           mul(f.quarticRootsOfUnity[4], xe) >>])
        specialX == prng(f.pRoot)
        polys == interpolateQuarticBatch(xs, polyValues, Len(polyValues))
        pEvaluations == evalQuarticBatch(polys, specialX, Len(polyValues))
        cColumn == Check("columnMerkle", depth)
        cPoly == Check("polyMerkle", depth)
        cFold == Check("fold", depth)
    IN  IF \E i \in 1..Len(columnValues) : columnValues[i] = Undefined
        THEN End(f, <<>>, TypeError)
        ELSE IF ~columnProofHolds(columnRoot, augmentedPositions, columnProof)
        THEN End(f1, << cColumn >>,
                 StarkError("Verification of column Merkle proof failed at depth", depth))
        ELSE IF \E b \in 1..Len(polyValues) : \E j \in 1..4 : polyValues[b][j] = Undefined
        THEN End(f1, << cColumn >>, TypeError)
        ELSE IF ~polyProofHolds(f.pRoot, positions, polyProof)
        THEN End(f2, << cColumn, cPoly >>,
                 StarkError("Verification of polynomial Merkle proof failed at depth", depth))
        ELSE IF ~foldHolds(pEvaluations, columnValues, Len(polyValues))
        THEN End(f2, << cColumn, cPoly, cFold >>,
                 StarkError("Degree 4 polynomial didn't evaluate to column value at depth",
                            depth))
        ELSE [f2 EXCEPT !.pc = IF depth + 1 < Len(f.proof.components) THEN "component"
                               ELSE "remainder",
                        !.log = f.log \o << cColumn, cPoly, cFold >>,
                        !.pRoot = columnRoot,
                        !.rootOfUnity = exp(f.rootOfUnity, 4),
                        !.maxDegreePlus1 = verifyMaxDegreePlus1(f.maxDegreePlus1),
                        !.columnLength = f.columnLength \div 4,
                        !.depth = depth + 1]

\* 3 ----- verify the remainder of the FRI proof
verifyRemainderStep(f) ==
    LET length == Len(f.proof.remainder)
        polyValues == transposeVector(f.proof.remainder, length, 1)
        polyHashes == digestValues(polyValues, length \div 4)
        cTree == MerkleTreeCreate(polyHashes, length \div 4)
        checked == verifyRemainder(f.proof.remainder, f.maxDegreePlus1, f.rootOfUnity,
                                   f.args.extensionFactor)
        cLength == Check("remainderLength", f.depth)
        cRoot == Check("remainderRoot", f.depth)
        cDegree == Check("remainderDegree", f.depth)
    IN  IF f.maxDegreePlus1 > length
        THEN End(f, << cLength >>,
                 StarkError("Remainder degree is greater than number of remainder values", 0))
        ELSE IF ~remainderRootHolds(cTree.root, f.pRoot)
        THEN End(f, << cLength, cRoot >>,
                 StarkError("Remainder values do not match Merkle root of the last column", 0))
        ELSE IF checked # Ok
        THEN End(f, << cLength, cRoot, cDegree >>, checked)
        ELSE End(f, << cLength, cRoot, cDegree >>, Returns(TRUE))

\* a verify that returns true before any check
verifyStepNoChecks(f) == End(f, <<>>, Returns(TRUE))

\* a verify that keeps taking its x coordinate from the first root
verifyStepSameRoot(f) ==
    IF f.pc = "lc" THEN verifyLinearCombination(f)
    ELSE IF f.pc = "component" THEN [verifyComponent(f) EXCEPT !.pRoot = f.pRoot]
    ELSE verifyRemainderStep(f)

\* a verify that keeps the root of unity of the whole domain
verifyStepSameRootOfUnity(f) ==
    IF f.pc = "lc" THEN verifyLinearCombination(f)
    ELSE IF f.pc = "component" THEN [verifyComponent(f) EXCEPT !.rootOfUnity = f.rootOfUnity]
    ELSE verifyRemainderStep(f)

\* the next group of checks of a running call
verifyStep(f) ==
    IF f.pc = "lc" THEN verifyLinearCombination(f)
    ELSE IF f.pc = "component" THEN verifyComponent(f)
    ELSE verifyRemainderStep(f)

\* the whole call
RECURSIVE verifyRun(_)
verifyRun(f) == IF f.pc = "done" THEN f ELSE verifyRun(verifyStep(f))

(***************************************************************************)
(* The callers of LowDegreeProver: inputs, and what an adversary may do to *)
(* a proof between prove and verify.                                       *)
(***************************************************************************)
\* the domain sizes tried are 4, 8, ..., 2^MaxLogDomain
MaxLogDomain == 11

DomainSizes == {2 ^ k : k \in 2..MaxLogDomain}

ExtensionFactors == {2, 4}

Versions == {"new", "old"}

\* the evaluation domain 1, g, g^2, ... of size n
evaluationDomain(n) == getPowerSeries(getRootOfUnity(n), n)

\* evaluations over the domain of the polynomial (id + 1) + (2 id + 3) x^degree
evaluatePolynomial(domain, n, id, degree) ==
    Vec([k \in 1..n |-> add(id + 1, mul(2 * id + 3, at(domain, ((k - 1) * degree) % n)))])

\* the arguments the caller will call verify with
verifyArgs(lRoot, lcValues, exeQueryPositions, maxDegreePlus1, rootOfUnity, extensionFactor) ==
    [ lRoot |-> lRoot,
      lcValues |-> lcValues,
      exeQueryPositions |-> exeQueryPositions,
      maxDegreePlus1 |-> maxDegreePlus1,
      rootOfUnity |-> rootOfUnity,
      extensionFactor |-> extensionFactor ]

valuesAt(cEvaluations, positions) ==
    Vec([i \in 1..Len(positions) |-> at(cEvaluations, positions[i])])

\* what the caller of prove holds afterwards: how prove ended, the proof, and
\* the other arguments it will call verify with
proveCallQueried(result, cEvaluations, domain, n, extensionFactor, exeQueryPositions) ==
    [ error |-> result.error,
      proof |-> result.proof,
      args  |-> verifyArgs(<<>>, valuesAt(cEvaluations, exeQueryPositions),
                           exeQueryPositions, n \div extensionFactor, at(domain, 1),
                           extensionFactor) ]

proveCallNew(result, cEvaluations, domain, n, extensionFactor) ==
    proveCallQueried(result, cEvaluations, domain, n, extensionFactor,
                     IF result.error = Ok
                     THEN getExeIndexes(result.proof.lcRoot, n, extensionFactor)
                     ELSE <<>>)

proveCallOldResult(result, lTree, domain, n, extensionFactor) ==
    [ error |-> result.error,
      proof |-> result.proof,
      args  |-> verifyArgs(lTree.root, <<>>, <<>>, n \div extensionFactor, at(domain, 1),
                           extensionFactor) ]

proveCallOldTree(lTree, polyValues, domain, n, extensionFactor) ==
    proveCallOldResult(proveOld(lTree, polyValues, n \div 4, domain, n \div extensionFactor,
                                extensionFactor),
                       lTree, domain, n, extensionFactor)

proveCallOld(polyValues, domain, n, extensionFactor) ==
    proveCallOldTree(MerkleTreeCreate(digestValues(polyValues, n \div 4), n \div 4),
                     polyValues, domain, n, extensionFactor)

proveCallFor(version, cEvaluations, domain, n, extensionFactor) ==
    IF version = "new"
    THEN proveCallNew(prove(cEvaluations, domain, n \div extensionFactor, extensionFactor),
                      cEvaluations, domain, n, extensionFactor)
    ELSE proveCallOld(transposeVector(cEvaluations, n, 1), domain, n, extensionFactor)

proveCallOver(version, domain, n, extensionFactor, id) ==
    proveCallFor(version, evaluatePolynomial(domain, n, id, (n \div extensionFactor) - 1),
                 domain, n, extensionFactor)

proveCall(version, n, extensionFactor, id) ==
    proveCallOver(version, evaluationDomain(n), n, extensionFactor, id)

\* a digest with one byte flipped
flip(d) == [d EXCEPT ![Len(d)] = (d[Len(d)] + 1) % modulus]

\* digests an adversary may put in place of components[k].columnRoot
otherDigests(p, k) ==
    { flip(p.components[k + 1].columnRoot),
      digest(<<k>>),
      IF k > 0 THEN p.components[k].columnRoot
      ELSE IF p.lcRoot # <<>> THEN p.lcRoot ELSE digest(<<k, k>>) }
    \ { p.components[k + 1].columnRoot }

\* the single changes made to a proof before it is verified
Tampers(p) ==
    LET depths == 0..(Len(p.components) - 1)
        r == Len(p.remainder)
    IN  { [what |-> "columnRoot", depth |-> k, digest |-> d] :
              k \in depths, d \in UNION {otherDigests(p, j) : j \in depths} }
        \cup { [what |-> "columnNode", depth |-> k, index |-> i] :
                  k \in depths, i \in 0..1 }
        \cup { [what |-> "polyNode", depth |-> k, index |-> i] :
                  k \in depths, i \in 0..1 }
        \cup { [what |-> "remainder", index |-> i, delta |-> d] :
                  i \in {0, 1, 4, r \div 2 + 1, r - 1}, d \in {1, 5} }

tampered(p, t) ==
    IF t.what = "columnRoot"
    THEN [p EXCEPT !.components[t.depth + 1].columnRoot = t.digest]
    ELSE IF t.what = "columnNode"
    THEN [p EXCEPT !.components[t.depth + 1].columnProof.nodes[t.index + 1] = flip(@)]
    ELSE IF t.what = "polyNode"
    THEN [p EXCEPT !.components[t.depth + 1].polyProof.nodes[t.index + 1] = flip(@)]
    ELSE [p EXCEPT !.remainder[t.index + 1] = (@ + t.delta) % modulus]

applicable(p, t) ==
    /\ t.what = "columnRoot" => t.digest # p.components[t.depth + 1].columnRoot
    /\ t.what = "columnNode" => t.index < Len(p.components[t.depth + 1].columnProof.nodes)
    /\ t.what = "polyNode" => t.index < Len(p.components[t.depth + 1].polyProof.nodes)

NoTamper == [what |-> "none"]

(***************************************************************************)
(* The state machine: a caller proves, the proof may be changed on its way,*)
(* and it is verified, possibly more than once.                            *)
(***************************************************************************)
VARIABLES
    phase,      \* "start", "proved", "verifying", "verified", "computed", "failed"
    version,    \* which LowDegreeProver is used
    input,      \* the arguments of prove
    proved,     \* what prove left: its outcome, the proof, the arguments for verify
    tamper,     \* the change made to the proof on its way
    given,      \* the proof as given to the first verify call
    call,       \* the frame of the current or last verify call
    calls,      \* the number of verify calls begun on the proof object
    first       \* the outcome of the first verify call

vars == << phase, version, input, proved, tamper, given, call, calls, first >>

\* the verify calls tried on one proof object
MaxCalls == 2

NoCall == [pc |-> "none", outcome |-> [kind |-> "none"], log |-> <<>>, proof |-> NoProof]

Init ==
    /\ phase = "start"
    /\ version = "none"
    /\ input = [n |-> 0, extensionFactor |-> 0, id |-> 0]
    /\ proved = [error |-> [kind |-> "none"], proof |-> NoProof, args |-> <<>>]
    /\ tamper = NoTamper
    /\ given = NoProof
    /\ call = NoCall
    /\ calls = 0
    /\ first = [kind |-> "none"]

\* LowDegreeProver.prove is called
Prove ==
    /\ phase = "start"
    /\ \E v \in Versions, n \in DomainSizes, e \in ExtensionFactors, id \in 0..(InputCount - 1) :
          /\ e < n
          /\ version' = v
          /\ input' = [n |-> n, extensionFactor |-> e, id |-> id]
          /\ proved' = proveCall(v, n, e, id)
          /\ given' = proved'.proof
    /\ phase' = "proved"
    /\ UNCHANGED << tamper, call, calls, first >>

\* the vector prove was called with
provedInput ==
    evaluatePolynomial(evaluationDomain(input.n), input.n, input.id,
                       (input.n \div input.extensionFactor) - 1)

\* the domain sizes a proof cut short is tried on
UnfoldSizes == {512}

\* the proof without its components, the whole vector as its remainder
unfolded(p, cEvaluations) == [p EXCEPT !.components = <<>>, !.remainder = cEvaluations]

\* the proof is replaced by one with fewer components and a longer remainder
Unfold ==
    /\ phase = "proved"
    /\ proved.error = Ok
    /\ tamper = NoTamper
    /\ input.n \in UnfoldSizes
    /\ tamper' = [what |-> "unfold"]
    /\ given' = unfolded(proved.proof, provedInput)
    /\ UNCHANGED << phase, version, input, proved, call, calls, first >>

\* the proof is changed in one place before it reaches the verifier
Tamper ==
    /\ phase = "proved"
    /\ proved.error = Ok
    /\ tamper = NoTamper
    /\ \E t \in Tampers(proved.proof) :
          /\ applicable(proved.proof, t)
          /\ tamper' = t
          /\ given' = tampered(proved.proof, t)
    /\ UNCHANGED << phase, version, input, proved, call, calls, first >>

\* LowDegreeProver.verify is called on the proof object: the first time on the
\* proof as given, later on the very same object
VerifyBegin ==
    /\ phase \in {"proved", "verified"}
    /\ proved.error = Ok
    /\ calls < MaxCalls
    /\ call' = verifyBegin(version, IF calls = 0 THEN given ELSE call.proof, proved.args)
    /\ calls' = calls + 1
    /\ phase' = "verifying"
    /\ UNCHANGED << version, input, proved, tamper, given, first >>

\* the running call executes its next group of checks
VerifyStep ==
    /\ phase = "verifying"
    /\ call' = verifyStep(call)
    /\ phase' = IF call'.pc = "done" THEN "verified" ELSE "verifying"
    /\ first' = IF calls = 1 /\ call'.pc = "done" THEN call'.outcome ELSE first
    /\ UNCHANGED << version, input, proved, tamper, given, calls >>

Next == Prove \/ Tamper \/ Unfold \/ VerifyBegin \/ VerifyStep

Spec == Init /\ [][Next]_vars

(***************************************************************************)
(* Stark: the computation (the Fibonacci example), the execution trace and *)
(* the polynomials P(x), Q(x), Z(x), D(x), B(x) over the evaluation        *)
(* domain.  A matrix is a sequence of rows, one row per register or        *)
(* constraint, a row being a vector over the evaluation domain.            *)
(***************************************************************************)
\* "transition 2 registers", "enforce 2 constraints", of degree 1
registerCount == 2

constraintCount == 2

maxConstraintDegree == 1

\* the transition function: a0 = r0 + r1, out = [a0, a0 + r1]
applyTransition(rValues) ==
    << add(rValues[1], rValues[2]), add(add(rValues[1], rValues[2]), rValues[2]) >>

\* the constraint evaluator: a0 = r0 + r1, out = [n0 - a0, n1 - (a0 + r1)]
evaluateOne(pValues, npValues) ==
    << sub(npValues[1], add(pValues[1], pValues[2])),
       sub(npValues[2], add(add(pValues[1], pValues[2]), pValues[2])) >>

\* the values of a polynomial, given by n coefficients, at 1, w, ..., w^(n-1).
\* A stage holds, for each of the `stride` residues r, the transform of the
\* coefficients at the indexes r, r + stride, r + 2 stride, ...; its value k
\* is at position r + stride * k
fftStage(prev, n, w, stride) ==
    Vec([i \in 1..n |->
            add(prev[((i - 1) % stride)
                     + 2 * stride * (((i - 1) \div stride) % (n \div (2 * stride))) + 1],
                mul(exp(w, stride * ((i - 1) \div stride)),
                    prev[((i - 1) % stride) + stride
                         + 2 * stride * (((i - 1) \div stride) % (n \div (2 * stride))) + 1]))])

RECURSIVE fftStages(_, _, _, _)
fftStages(prev, n, w, stride) ==
    CASE computed(prev) ->
        IF stride = 0 THEN prev
        ELSE fftStages(fftStage(prev, n, w, stride), n, w, stride \div 2)

fft(v, n, w) == fftStages(v, n, w, n \div 2)

\* every element of v times c
scaleVector(v, c) == Vec([k \in 1..Len(v) |-> mul(c, v[k])])

\* field.interpolateRoots(rootsOfUnity, ys): the coefficients of the polynomial
\* of degree < n through (w^i, ys[i])
interpolateRoots(rootsOfUnity, ys) ==
    scaleVector(fft(ys, Len(ys), inv(at(rootsOfUnity, 1))), inv(Len(ys) % modulus))

\* field.evalPolyAtRoots(poly, rootsOfUnity), poly given by its coefficients
evalPolyAtRoots(poly, rootsOfUnity) ==
    fft(Vec([k \in 1..Len(rootsOfUnity) |-> IF k <= Len(poly) THEN poly[k] ELSE 0]),
        Len(rootsOfUnity), at(rootsOfUnity, 1))

\* field.mulPolys and field.evalPolyAt on coefficient vectors
mulPolys(a, b) ==
    Vec([k \in 1..(Len(a) + Len(b) - 1) |->
            LET term(i) == IF k + 1 - i >= 1 /\ k + 1 - i <= Len(b)
                           THEN mul(a[i], b[k + 1 - i]) ELSE 0
            IN  sumOver(term, 1, Len(a))])

RECURSIVE evalCoefficientsFrom(_, _, _)
evalCoefficientsFrom(poly, x, k) ==
    IF k > Len(poly) THEN 0
    ELSE add(poly[k], mul(x, evalCoefficientsFrom(poly, x, k + 1)))

evalCoefficientsAt(poly, x) == evalCoefficientsFrom(poly, x, 1)

\* createContext(iterations) with iterations = 1, for config.steps = steps
createContext(steps, extensionFactor) ==
    [ roundSteps      |-> steps,
      totalSteps      |-> steps,
      domainSize      |-> steps * extensionFactor,
      rootOfUnity     |-> getRootOfUnity(steps * extensionFactor),
      registerCount   |-> registerCount,
      constantCount   |-> 0,
      extensionFactor |-> extensionFactor ]

\* ExecutionTraceBuilder.compute: the states of steps 0 .. count - 1, count a
\* power of two, each the transition applied to the one before
RECURSIVE traceStates(_, _)
traceStatesAfter(firstHalf, half) ==
    firstHalf \o traceStates(applyTransition(firstHalf[half]), half)

traceStates(rValues, count) ==
    IF count = 1 THEN << rValues >>
    ELSE traceStatesAfter(traceStates(rValues, count \div 2), count \div 2)

\* trace[register][step]
traceOf(states, steps) ==
    Vec([register \in 1..registerCount |-> Vec([step \in 1..steps |-> states[step][register]])])

\* iRegisters[register].getValue(step, false), for all registers: compute reads
\* it at step 0 and at the last step of every iteration but the last, and is
\* given the input row of the iteration that follows
getValue(inputs, step, roundSteps) ==
    IF step = 0 THEN inputs[1] ELSE inputs[((step + 1) \div roundSteps) + 1]

\* the states written for the steps 0 .. (j + 1) * roundSteps - 1: at the first
\* step of an iteration the trace gets the next state of the iteration before
\* while rValues is read from the input registers
RECURSIVE computeIterations(_, _, _)
computeIteration(before, rValues, roundSteps) ==
    before \o << applyTransition(before[Len(before)]) >> \o Tail(traceStates(rValues, roundSteps))

computeIterations(inputs, roundSteps, j) ==
    IF j = 0 THEN traceStates(getValue(inputs, 0, roundSteps), roundSteps)
    ELSE computeIteration(computeIterations(inputs, roundSteps, j - 1),
                          getValue(inputs, j * roundSteps - 1, roundSteps), roundSteps)

\* a compute that reads the input row of the first iteration at every iteration
computeFirstRow(context, inputs) ==
    traceOf(computeIterations([k \in 1..Len(inputs) |-> inputs[1]], context.roundSteps,
                              (context.totalSteps \div context.roundSteps) - 1),
            context.totalSteps)

\* compute(context, iRegisters, kRegisters), the input registers given by the
\* rows of inputs, one row per iteration
compute(context, inputs) ==
    traceOf(computeIterations(inputs, context.roundSteps,
                              (context.totalSteps \div context.roundSteps) - 1),
            context.totalSteps)

Error(message) == Throws("Error", message, 0)

\* a check of one assertion that leaves out the comparison with the trace
validateAssertionInRange(trace, a) ==
    IF a.register < 0 \/ a.register >= Len(trace)
    THEN Error("Invalid assertion: register is outside of register bank")
    ELSE IF a.step < 0 \/ a.step >= Len(trace[1])
    THEN Error("Invalid assertion: step is outside of execution trace")
    ELSE Ok

\* how validateAssertions treats one assertion: Ok, or the error it throws
validateAssertion(trace, a) ==
    IF a.register < 0 \/ a.register >= Len(trace)
    THEN Error("Invalid assertion: register is outside of register bank")
    ELSE IF a.step < 0 \/ a.step >= Len(trace[1])
    THEN Error("Invalid assertion: step is outside of execution trace")
    ELSE IF at(at(trace, a.register), a.step) # a.value
    THEN StarkError("Assertion conflicts with execution trace", a.step)
    ELSE Ok

\* validateAssertions(trace, assertions): the error of the first assertion that
\* has one
validateAssertions(trace, assertions) ==
    IF \A k \in 1..Len(assertions) : validateAssertion(trace, assertions[k]) = Ok
    THEN Ok
    ELSE validateAssertion(trace,
            assertions[CHOOSE k \in 1..Len(assertions) :
                          /\ validateAssertion(trace, assertions[k]) # Ok
                          /\ \A j \in 1..(k - 1) : validateAssertion(trace, assertions[j]) = Ok])

\* column i of a matrix: the values of all its rows at domain position i
column(m, i) == Vec([r \in 1..Len(m) |-> at(m[r], i)])

\* field.invMany, field.mulMany(matrix, vector) and field.mulMany(matrix, v1, v2)
invMany(v) == Vec([i \in 1..Len(v) |-> inv(v[i])])

mulMany(m, v) == Vec([r \in 1..Len(m) |-> Vec([i \in 1..Len(v) |-> mul(m[r][i], v[i])])])

mulMany3(m, v1, v2) ==
    Vec([r \in 1..Len(m) |-> Vec([i \in 1..Len(v1) |-> mul(mul(m[r][i], v1[i]), v2[i])])])

\* field.combine(values, coefficients) and field.combineMany(matrix, coefficients)
combine(values, coefficients) ==
    LET term(j) == mul(values[j], coefficients[j])
    IN  sumOver(term, 1, Len(values))

combineMany(m, coefficients, length) ==
    Vec([i \in 1..length |-> combine(column(m, i - 1), coefficients)])

\* the points of the evaluation domain that are steps of the execution
executionDomain(context, domain) ==
    Vec([k \in 1..context.totalSteps |->
            at(domain, (k - 1) * context.extensionFactor)])

\* new TracePolynomial(context, executionTrace).evaluate(evaluationDomain): each
\* register's trace interpolated over the execution domain and evaluated over
\* the evaluation domain
TracePolynomial_evaluate(context, executionTrace, domain) ==
    Vec([r \in 1..Len(executionTrace) |->
            evalPolyAtRoots(
                interpolateRoots(executionDomain(context, domain), executionTrace[r]),
                domain)])

\* constraintEvaluator.evaluateAll: Q(x) = C(P(x), P(x * g^extensionFactor))
evaluateAll(context, pEvaluations) ==
    Vec([j \in 1..constraintCount |->
            Vec([i \in 1..context.domainSize |->
                    evaluateOne(column(pEvaluations, i - 1),
                                column(pEvaluations,
                                       (i - 1 + context.extensionFactor) % context.domainSize))[j]])])

\* ZeroPolynomial: Z(x) = (x^steps - 1) / (x - x at the last step)
xAtLastStep(context) ==
    exp(context.rootOfUnity, (context.totalSteps - 1) * context.extensionFactor)

ZeroPolynomial_evaluateAt(context, x) ==
    div(sub(exp(x, context.totalSteps), 1), sub(x, xAtLastStep(context)))

ZeroPolynomial_evaluateAll(context, domain) ==
    [ numerators   |-> Vec([i \in 1..Len(domain) |-> sub(exp(domain[i], context.totalSteps), 1)]),
      denominators |-> Vec([i \in 1..Len(domain) |-> sub(domain[i], xAtLastStep(context))]) ]

\* the elements of a sequence without repetitions, in the order of their first
\* occurrence: Array.from of a Set, or the keys of a Map
insertionOrder(s) ==
    LET firsts == SelectSeq(Range(1, Len(s)), LAMBDA k : \A j \in 1..(k - 1) : s[j] # s[k])
    IN  Vec([i \in 1..Len(firsts) |-> s[firsts[i]]])

\* the product of the polynomials x - xs[k], k <= n
RECURSIVE zPolyOf(_, _)
zPolyOf(xs, n) ==
    IF n = 1 THEN << neg(xs[1]), 1 >>
    ELSE mulPolys(zPolyOf(xs, n - 1), << neg(xs[n]), 1 >>)

\* BoundaryConstraints: what the constructor keeps for one register
boundaryPolys(register, xs, ys) ==
    [ register |-> register, iPoly |-> interpolate(xs, ys), zPoly |-> zPolyOf(xs, Len(xs)) ]

boundaryData(register, cs, context) ==
    boundaryPolys(register,
        Vec([k \in 1..Len(cs) |->
                exp(context.rootOfUnity, cs[k].step * context.extensionFactor)]),
        Vec([k \in 1..Len(cs) |-> cs[k].value]))

\* new BoundaryConstraints(assertions, context): this.polys, in the order in
\* which the registers first occur in the assertions
BoundaryConstraints(assertions, context) ==
    LET registers == insertionOrder(Vec([k \in 1..Len(assertions) |-> assertions[k].register]))
    IN  Vec([k \in 1..Len(registers) |->
                boundaryData(registers[k],
                             SelectSeq(assertions, LAMBDA a : a.register = registers[k]),
                             context)])

\* B(x) = (P(x) - I(x)) / Z(x) for one register
boundaryValue(c, p, x) ==
    div(sub(p, evalPolyAt(c.iPoly, x)), evalCoefficientsAt(c.zPoly, x))

\* bPoly.evaluateAt(pEvaluations, x)
BoundaryConstraints_evaluateAt(polys, pValues, x) ==
    Vec([k \in 1..Len(polys) |-> boundaryValue(polys[k], at(pValues, polys[k].register), x)])

\* bPoly.evaluateAll(pEvaluations, domain)
BoundaryConstraints_evaluateAll(polys, pEvaluations, domain) ==
    Vec([k \in 1..Len(polys) |->
            Vec([i \in 1..Len(domain) |->
                    boundaryValue(polys[k], at(pEvaluations, polys[k].register)[i], domain[i])])])

\* serializer.mergeEvaluations([p, b, d], bpc, position): one buffer with the
\* values of P(x), B(x) and D(x) at the position
mergeEvaluations(pEvaluations, bEvaluations, dEvaluations, position) ==
    column(pEvaluations, position) \o column(bEvaluations, position)
        \o column(dEvaluations, position)

readValues(buffer, from, count) ==
    Vec([k \in 1..count |-> readBigInt(buffer, from + k - 1)])

\* serializer.parseEvaluations(buffer, bpc): [p, b, d]
parseEvaluations(buffer, bpc) ==
    << readValues(buffer, 0, registerCount),
       readValues(buffer, registerCount, bpc),
       readValues(buffer, registerCount + bpc, constraintCount) >>

(***************************************************************************)
(* Stark.prove.  The LowDegreeProver it builds is the newer one, called as *)
(* its prove(cEvaluations, domain, maxDegreePlus1) asks; the linear        *)
(* combination spot checks of the low degree proof are made at the         *)
(* execution query positions that Stark.prove draws.                       *)
(***************************************************************************)
Max(a, b) == IF a > b THEN a ELSE b

getLinearCombinationDegree(evaluationDomainSize, extensionFactor) ==
    (evaluationDomainSize \div extensionFactor) * Max(maxConstraintDegree - 1, 1)

\* the positions alone, without the positions one step later
Stark_getAugmentedPositionsAlone(positions, evaluationDomainSize, extensionFactor) ==
    insertionOrder(positions)

\* Stark.getAugmentedPositions: every position and the position one step later,
\* without repetitions, in insertion order
Stark_getAugmentedPositions(positions, evaluationDomainSize, extensionFactor) ==
    insertionOrder(Vec([k \in 1..(2 * Len(positions)) |->
        IF k % 2 = 1 THEN positions[(k + 1) \div 2]
        ELSE (positions[k \div 2] + extensionFactor) % evaluationDomainSize]))

\* Math.min(this.exeSpotCheckCount, evaluationDomainSize - evaluationDomainSize / extensionFactor)
spotCheckCountOf(exeSpotCheckCount, evaluationDomainSize, extensionFactor) ==
    Min(exeSpotCheckCount, evaluationDomainSize - evaluationDomainSize \div extensionFactor)

spotCheckCount(evaluationDomainSize, extensionFactor) ==
    spotCheckCountOf(ExeQueryCount, evaluationDomainSize, extensionFactor)

bigIntsToBuffers(values) == Vec([i \in 1..Len(values) |-> << values[i] >>])

buffersToBigInts(buffers) == Vec([i \in 1..Len(buffers) |-> readBigInt(buffers[i], 0)])

\* an error that carries the error it was caused by
StarkErrorCausedBy(message, cause) ==
    [kind |-> "throw", type |-> "StarkError", msg |-> message, at |-> 0, cause |-> cause]

NoStarkProof ==
    [ evaluations |-> [root |-> <<>>, values |-> <<>>, nodes |-> <<>>, depth |-> 0, bpc |-> 0],
      degree      |-> [root |-> <<>>, lcProof |-> NoMerkleProof, ldProof |-> NoProof] ]

Thrown(error) == [error |-> error, proof |-> NoStarkProof]

\* 10 ---- the polynomials that enter the linear combination
allEvaluations(context, pEvaluations, bEvaluations, dEvaluations, lCombinationDegree) ==
    IF lCombinationDegree > context.totalSteps
    THEN mulMany(pEvaluations \o bEvaluations,
                 getPowerSeries(exp(context.rootOfUnity, lCombinationDegree - context.totalSteps),
                                context.domainSize))
         \o pEvaluations \o bEvaluations \o dEvaluations
    ELSE pEvaluations \o bEvaluations
         \o mulMany(dEvaluations,
                    getPowerSeries(exp(context.rootOfUnity, context.totalSteps - 1),
                                   context.domainSize))

linearCombination(root, all, length) ==
    combineMany(all, prngVector(root, Len(all)), length)

\* new LowDegreeProver(...).prove(...) inside try / catch: the prover's
\* prove(cEvaluations, domain, maxDegreePlus1), with the linear combination
\* spot checks of the proof made at the execution query positions of Stark.prove
ldProveLc(pTree, polyValues, valueCount, positions) ==
    proveBatchValues(pTree, polyValues, getAugmentedPositions(positions, valueCount))

ldProveOver(pTree, polyValues, valueCount, domain, maxDegreePlus1, extensionFactor, positions) ==
    proofObject(getComponentCount(valueCount), pTree.root,
                ldProveLc(pTree, polyValues, valueCount, positions),
                fri("new", pTree, polyValues, valueCount \div 4, maxDegreePlus1, 0, domain,
                    extensionFactor))

ldProveTree(polyValues, valueCount, domain, maxDegreePlus1, extensionFactor, positions) ==
    ldProveOver(MerkleTreeCreate(digestValues(polyValues, valueCount \div 4), valueCount \div 4),
                polyValues, valueCount, domain, maxDegreePlus1, extensionFactor, positions)

ldProve(lEvaluations, domain, lCombinationDegree, context, positions) ==
    ldProveTree(transposeVector(lEvaluations, Len(lEvaluations), 1), Len(lEvaluations),
                domain, lCombinationDegree, context.extensionFactor, positions)

\* the proof object Stark.prove returns, or the error of the low degree prover
\* in a StarkError
proofOf(eTree, eValues, eProof, bpc, lTree, lcProof, ld) ==
    IF ld.error # Ok
    THEN Thrown(StarkErrorCausedBy("Low degree proof failed", ld.error))
    ELSE [ error |-> Ok,
           proof |-> [ evaluations |-> [ root   |-> eTree.root,
                                         values |-> eValues,
                                         nodes  |-> eProof.nodes,
                                         depth  |-> eProof.depth,
                                         bpc    |-> bpc ],
                       degree |-> [ root    |-> lTree.root,
                                    lcProof |-> lcProof,
                                    ldProof |-> ld.proof ] ] ]

\* 11 ----- compute low-degree proof
proveDegree(context, domain, bpc, eTree, eValues, eProof, positions, lEvaluations, lTree) ==
    CASE computed(lTree) ->
        proofOf(eTree, eValues, eProof, bpc, lTree, proveBatch(lTree, positions),
                ldProve(lEvaluations, domain,
                        getLinearCombinationDegree(context.domainSize, context.extensionFactor),
                        context, positions))

proveCombined(context, domain, bpc, eTree, eValues, eProof, positions, lEvaluations) ==
    CASE computed(eValues) /\ computed(eProof) /\ computed(lEvaluations) ->
        proveDegree(context, domain, bpc, eTree, eValues, eProof, positions, lEvaluations,
                    MerkleTreeCreate(bigIntsToBuffers(lEvaluations), context.domainSize))

\* 9 ----- spot check evaluation tree at pseudo-random positions
proveAugmented(context, domain, bpc, all, mergedEvaluations, eTree, positions, augmentedPositions) ==
    CASE computed(augmentedPositions) ->
        proveCombined(context, domain, bpc, eTree,
                      Vec([i \in 1..Len(augmentedPositions) |->
                              at(mergedEvaluations, augmentedPositions[i])]),
                      proveBatch(eTree, augmentedPositions), positions,
                      linearCombination(eTree.root, all, context.domainSize))

provePositions(context, domain, bpc, all, mergedEvaluations, eTree, positions) ==
    CASE computed(positions) ->
        proveAugmented(context, domain, bpc, all, mergedEvaluations, eTree, positions,
                       Stark_getAugmentedPositions(positions, context.domainSize,
                                                   context.extensionFactor))

proveSpotChecks(context, domain, bpc, all, mergedEvaluations, eTree) ==
    CASE computed(eTree) ->
        provePositions(context, domain, bpc, all, mergedEvaluations, eTree,
            getPseudorandomIndexes(eTree.root,
                                   spotCheckCount(context.domainSize, context.extensionFactor),
                                   context.domainSize, context.extensionFactor))

\* 8 ----- build merkle tree for evaluations of P(x), D(x), and B(x)
proveMerged(context, domain, bpc, all, mergedEvaluations) ==
    CASE computed(all) /\ computed(mergedEvaluations) ->
        proveSpotChecks(context, domain, bpc, all, mergedEvaluations,
            MerkleTreeCreate(hashBuffers(mergedEvaluations), context.domainSize))

proveEvaluations(context, domain, pEvaluations, bEvaluations, dEvaluations) ==
    CASE computed(bEvaluations) /\ computed(dEvaluations) ->
        proveMerged(context, domain, Len(bEvaluations),
            allEvaluations(context, pEvaluations, bEvaluations, dEvaluations,
                getLinearCombinationDegree(context.domainSize, context.extensionFactor)),
            Vec([i \in 1..context.domainSize |->
                    mergeEvaluations(pEvaluations, bEvaluations, dEvaluations, i - 1)]))

\* 4 - 6 ----- Q(x) = C(P(x)), Z(x), D(x) = Q(x) / Z(x)
dEvaluationsOf(qEvaluations, zEvaluations) ==
    mulMany3(qEvaluations, zEvaluations.denominators, invMany(zEvaluations.numerators))

\* 3 - 7 ----- P(x), D(x) and the boundary constraints B(x)
provePolynomials(assertions, context, domain, pEvaluations) ==
    CASE computed(pEvaluations) ->
        proveEvaluations(context, domain, pEvaluations,
            BoundaryConstraints_evaluateAll(BoundaryConstraints(assertions, context),
                                            pEvaluations, domain),
            dEvaluationsOf(evaluateAll(context, pEvaluations),
                           ZeroPolynomial_evaluateAll(context, domain)))

\* 2 ----- generate execution trace and make sure it is correct
proveTrace(assertions, context, domain, executionTrace) ==
    IF validateAssertions(executionTrace, assertions) # Ok
    THEN Thrown(validateAssertions(executionTrace, assertions))
    ELSE provePolynomials(assertions, context, domain,
                          TracePolynomial_evaluate(context, executionTrace, domain))

\* 1 ----- set up evaluation context
proveContext(assertions, inputs, context) ==
    proveTrace(assertions, context,
               getPowerSeries(context.rootOfUnity, context.domainSize),
               compute(context, << inputs >>))

\* Stark.prove(assertions, inputs) of a Stark for the given number of steps and
\* extension factor: the proof it returns and Ok, or the error it throws
Stark_prove(assertions, inputs, steps, extensionFactor) ==
    IF Len(assertions) = 0
    THEN Thrown(Throws("TypeError", "At least one assertion must be provided", 0))
    ELSE IF Len(inputs) = 0
    THEN Thrown(Throws("TypeError", "At least one input must be provided", 0))
    ELSE proveContext(assertions, inputs, createContext(steps, extensionFactor))

(***************************************************************************)
(* Stark.verify, one numbered stage at a time.  A frame holds the          *)
(* arguments, the locals, the checks executed so far with their results,   *)
(* the frame of the LowDegreeProver.verify call and, once the call has     *)
(* ended, its outcome.                                                     *)
(***************************************************************************)
\* a check that was executed, and whether it passed
Verdict(name, n, ok) == [check |-> name, depth |-> n, ok |-> ok]

\* catch (error) { if (error instanceof StarkError === false) throw new
\* StarkError(message, error); }: the error that leaves the handler, Ok when
\* none does
catchNonStarkError(error, message) ==
    IF (error.type = "StarkError") = FALSE THEN StarkErrorCausedBy(message, error)
    ELSE Ok

\* try { if (!MerkleTree.verifyBatch(...)) throw new StarkError(message); }
\* catch ...: the error that leaves the statement, Ok when none does
tryVerifyBatch(verified, message) ==
    IF ~verified THEN catchNonStarkError(StarkError(message, 0), message)
    ELSE Ok

NoFrame == [pc |-> "none", outcome |-> [kind |-> "none"], log |-> <<>>, proof |-> NoProof]

\* 3 ----- decode evaluation spot-checks: the maps from position to the values
\* of P(x), B(x), D(x) there (k = 1, 2, 3)
decoded(values, augmentedPositions, bpc, k) ==
    [position \in {augmentedPositions[i] : i \in 1..Min(Len(values), Len(augmentedPositions))} |->
        parseEvaluations(
            values[CHOOSE i \in 1..Len(augmentedPositions) : augmentedPositions[i] = position],
            bpc)[k]]

\* the locals of verify before the first check
verifyDecoded(assertions, proof, context, bPoly, positions, augmentedPositions) ==
    [ pc |-> "evaluationProof",
      assertions |-> assertions,
      proof |-> proof,
      context |-> context,
      bPoly |-> bPoly,
      positions |-> positions,
      augmentedPositions |-> augmentedPositions,
      pEvaluations |-> decoded(proof.evaluations.values, augmentedPositions, Len(bPoly), 1),
      bEvaluations |-> decoded(proof.evaluations.values, augmentedPositions, Len(bPoly), 2),
      dEvaluations |-> decoded(proof.evaluations.values, augmentedPositions, Len(bPoly), 3),
      lEvaluations |-> << >>,
      ld |-> NoFrame,
      i |-> 0,
      log |-> <<>>,
      outcome |-> Running ]

\* 2 ----- compute positions for evaluation spot-checks
verifyPositions(assertions, proof, context, positions) ==
    verifyDecoded(assertions, proof, context, BoundaryConstraints(assertions, context),
                  positions,
                  Stark_getAugmentedPositions(positions, context.domainSize,
                                              context.extensionFactor))

\* a verify that draws one position more than prove
verifyContextOneMore(assertions, proof, context) ==
    verifyPositions(assertions, proof, context,
        getPseudorandomIndexes(proof.evaluations.root,
                               spotCheckCount(context.domainSize, context.extensionFactor) + 1,
                               context.domainSize, context.extensionFactor))

\* 1 ----- set up evaluation context
verifyContext(assertions, proof, context) ==
    verifyPositions(assertions, proof, context,
        getPseudorandomIndexes(proof.evaluations.root,
                               spotCheckCount(context.domainSize, context.extensionFactor),
                               context.domainSize, context.extensionFactor))

\* Stark.verify(assertions, proof), up to its first check
Stark_verifyBegin(assertions, proof, steps, extensionFactor) ==
    IF Len(assertions) < 1
    THEN [ NoFrame EXCEPT
             !.pc = "done",
             !.proof = proof,
             !.outcome = Throws("TypeError", "At least one assertion must be provided", 0) ]
    ELSE verifyContext(assertions, proof, createContext(steps, extensionFactor))

\* 4 ----- verify merkle proof for evaluation tree
hashedEvaluations(values, count) ==
    Vec([i \in 1..count |-> IF i <= Len(values) THEN digest(values[i]) ELSE <<>>])

evaluationProofHolds(f) ==
    verifyBatch(f.proof.evaluations.root, f.augmentedPositions,
                [ values |-> hashedEvaluations(f.proof.evaluations.values,
                                               Len(f.augmentedPositions)),
                  nodes  |-> f.proof.evaluations.nodes,
                  depth  |-> f.proof.evaluations.depth ])

verifyEvaluationProofChecked(f, verified, error) ==
    IF error # Ok THEN End(f, << Verdict("evaluationMerkle", 0, verified) >>, error)
    ELSE [f EXCEPT !.pc = "lcProof",
                   !.log = f.log \o << Verdict("evaluationMerkle", 0, verified) >>]

verifyEvaluationProof(f) ==
    verifyEvaluationProofChecked(f, evaluationProofHolds(f),
        tryVerifyBatch(evaluationProofHolds(f), "Verification of evaluation Merkle proof failed"))

\* 5 ----- verify linear combination proof
degreeProofHolds(f) ==
    verifyBatch(f.proof.degree.root, f.positions, f.proof.degree.lcProof)

\* the map from position to the value of the linear combination there
lEvaluationsOf(positions, lEvaluationValues) ==
    [position \in {positions[i] : i \in 1..Min(Len(lEvaluationValues), Len(positions))} |->
        lEvaluationValues[CHOOSE i \in 1..Len(positions) : positions[i] = position]]

verifyDegreeProofChecked(f, verified, error) ==
    IF error # Ok THEN End(f, << Verdict("lcMerkle", 0, verified) >>, error)
    ELSE [f EXCEPT !.pc = "lowDegree",
                   !.log = f.log \o << Verdict("lcMerkle", 0, verified) >>,
                   !.lEvaluations =
                       lEvaluationsOf(f.positions,
                                      buffersToBigInts(f.proof.degree.lcProof.values))]

verifyDegreeProof(f) ==
    verifyDegreeProofChecked(f, degreeProofHolds(f),
        tryVerifyBatch(degreeProofHolds(f),
                       "Verification of linear combination Merkle proof failed"))

\* 6 ----- verify low degree proof: ldProver.verify(...) inside try / catch, one
\* step of the prover's verify at a time.  The prover is called as its
\* verify(proof, lcValues, exeQueryPositions, maxDegreePlus1) asks, with the
\* values of the linear combination proof at the positions of the spot checks
ldVerifyBegin(f) ==
    verifyBegin("new", f.proof.degree.ldProof,
        verifyArgs(<<>>, buffersToBigInts(f.proof.degree.lcProof.values), f.positions,
                   getLinearCombinationDegree(f.context.domainSize, f.context.extensionFactor),
                   f.context.rootOfUnity, f.context.extensionFactor))

\* a verify that lets the error of the low degree prover through as it is
verifyLowDegreeRethrown(f) ==
    IF f.ld.pc = "none" THEN [f EXCEPT !.ld = ldVerifyBegin(f)]
    ELSE IF f.ld.pc # "done" THEN [f EXCEPT !.ld = verifyStep(f.ld)]
    ELSE IF f.ld.outcome.kind = "throw"
    THEN End(f, << Verdict("lowDegree", 0, FALSE) >>, f.ld.outcome)
    ELSE [f EXCEPT !.pc = "constraints",
                   !.log = f.log \o << Verdict("lowDegree", 0, TRUE) >>]

verifyLowDegree(f) ==
    IF f.ld.pc = "none" THEN [f EXCEPT !.ld = ldVerifyBegin(f)]
    ELSE IF f.ld.pc # "done" THEN [f EXCEPT !.ld = verifyStep(f.ld)]
    ELSE IF f.ld.outcome.kind = "throw"
    THEN End(f, << Verdict("lowDegree", 0, FALSE) >>,
             StarkErrorCausedBy("Verification of low degree failed", f.ld.outcome))
    ELSE [f EXCEPT !.pc = "constraints",
                   !.log = f.log \o << Verdict("lowDegree", 0, TRUE) >>]

\* 7 ----- verify transition and boundary constraints at one position
has(map, key) == key \in DOMAIN map

lPolyCount(bPoly) == constraintCount + 2 * (registerCount + Len(bPoly))

transitionHolds(context, x, pValues, npValues, dValues) ==
    \A j \in 1..constraintCount :
        evaluateOne(pValues, npValues)[j] = mul(ZeroPolynomial_evaluateAt(context, x), dValues[j])

boundaryHolds(bPoly, pValues, bValues, x) ==
    \A j \in 1..Len(bPoly) :
        BoundaryConstraints_evaluateAt(bPoly, pValues, x)[j] = bValues[j]

\* the values that enter the linear combination at x; field.combine reduces
\* the products in the field
lcValuesAt(context, x, pValues, bValues, dValues, lCombinationDegree) ==
    IF lCombinationDegree > context.totalSteps
    THEN Vec([j \in 1..Len(pValues \o bValues) |->
                 mul((pValues \o bValues)[j],
                     exp(x, lCombinationDegree - context.totalSteps))])
         \o pValues \o bValues \o dValues
    ELSE pValues \o bValues
         \o Vec([j \in 1..Len(dValues) |-> mul(dValues[j], exp(x, context.totalSteps - 1))])

linearCombinationHolds(f, step, x, pValues, bValues, dValues) ==
    /\ has(f.lEvaluations, step)
    /\ f.lEvaluations[step] =
           combine(lcValuesAt(f.context, x, pValues, bValues, dValues,
                              getLinearCombinationDegree(f.context.domainSize,
                                                         f.context.extensionFactor)),
                   prngVector(f.proof.evaluations.root, lPolyCount(f.bPoly)))

\* the position after the last one checked, or the end of verify
verifyNextPosition(f, cs) ==
    IF f.i + 1 < Len(f.positions)
    THEN [f EXCEPT !.i = f.i + 1, !.log = f.log \o cs]
    ELSE End(f, cs, Returns(TRUE))

\* a verify that returns false where a constraint does not hold
verifyConstraintsReturnFalse(f, step, transition, boundary, combination) ==
    IF transition /\ boundary /\ combination
    THEN verifyNextPosition(f, << Verdict("transition", step, TRUE),
                                  Verdict("boundary", step, TRUE),
                                  Verdict("linearCombination", step, TRUE) >>)
    ELSE End(f, << Verdict("constraints", step, FALSE) >>, Returns(FALSE))

verifyConstraintsChecked(f, step, transition, boundary, combination) ==
    IF ~transition
    THEN End(f, << Verdict("transition", step, FALSE) >>,
             StarkError("Transition constraint at position was not satisfied", step))
    ELSE IF ~boundary
    THEN End(f, << Verdict("transition", step, TRUE), Verdict("boundary", step, FALSE) >>,
             StarkError("Boundary constraint at position was not satisfied", step))
    ELSE IF ~combination
    THEN End(f, << Verdict("transition", step, TRUE), Verdict("boundary", step, TRUE),
                   Verdict("linearCombination", step, FALSE) >>,
             StarkError("Linear combination at position is inconsistent", step))
    ELSE verifyNextPosition(f, << Verdict("transition", step, TRUE),
                                  Verdict("boundary", step, TRUE),
                                  Verdict("linearCombination", step, TRUE) >>)

verifyConstraintsAt(f, step, x, pValues, npValues, bValues, dValues) ==
    verifyConstraintsChecked(f, step,
        transitionHolds(f.context, x, pValues, npValues, dValues),
        boundaryHolds(f.bPoly, pValues, bValues, x),
        linearCombinationHolds(f, step, x, pValues, bValues, dValues))

verifyConstraintsStep(f, step, next) ==
    IF ~has(f.pEvaluations, step) \/ ~has(f.pEvaluations, next)
    THEN End(f, <<>>, TypeError)
    ELSE verifyConstraintsAt(f, step, exp(f.context.rootOfUnity, step),
                             f.pEvaluations[step], f.pEvaluations[next],
                             f.bEvaluations[step], f.dEvaluations[step])

verifyConstraints(f) ==
    IF Len(f.positions) = 0 THEN End(f, <<>>, Returns(TRUE))
    ELSE verifyConstraintsStep(f, f.positions[f.i + 1],
             (f.positions[f.i + 1] + f.context.extensionFactor) % f.context.domainSize)

\* one stage of Stark.verify
Stark_verifyStep(f) ==
    CASE f.pc = "evaluationProof" -> verifyEvaluationProof(f)
      [] f.pc = "lcProof"         -> verifyDegreeProof(f)
      [] f.pc = "lowDegree"       -> verifyLowDegree(f)
      [] f.pc = "constraints"     -> verifyConstraints(f)

(***************************************************************************)
(* The callers of Stark: the Fibonacci computation of the example is       *)
(* proved for a number of steps and an extension factor, the proof or the  *)
(* assertions may be changed on their way, and verify is called.           *)
(***************************************************************************)
\* the numbers of steps tried are 8, 16, ..., 2^MaxLogSteps
MaxLogSteps == 7

StepCounts == {2 ^ k : k \in 3..MaxLogSteps}

\* the initial values of the two registers
initValues(id) == << 1, 1 + id >>

\* the value of the last register at the last step
resultOf(inputs, steps) == traceStates(inputs, steps)[steps][registerCount]

AssertionCases ==
    {"initial", "result", "wrong", "register", "registerBelow", "step", "stepBelow"}

\* the assertions of the example, a part of them, and a list with an
\* assertion the trace does not satisfy
assertionsFor(case, inputs, steps) ==
    CASE case = "initial" ->
            << [step |-> 0, register |-> 0, value |-> inputs[1]],
               [step |-> 0, register |-> 1, value |-> inputs[2]] >>
      [] case = "result" ->
            << [step |-> 0, register |-> 0, value |-> inputs[1]],
               [step |-> 0, register |-> 1, value |-> inputs[2]],
               [step |-> steps - 1, register |-> 1, value |-> resultOf(inputs, steps)] >>
      [] case = "wrong" ->
            << [step |-> 0, register |-> 0, value |-> inputs[1]],
               [step |-> steps - 1, register |-> 1,
                value |-> add(resultOf(inputs, steps), 1)] >>
      [] case = "register" ->
            << [step |-> 0, register |-> 0, value |-> inputs[1]],
               [step |-> 0, register |-> registerCount, value |-> inputs[2]] >>
      [] case = "registerBelow" ->
            << [step |-> 0, register |-> 0 - 1, value |-> inputs[1]],
               [step |-> steps - 1, register |-> 1,
                value |-> add(resultOf(inputs, steps), 1)] >>
      [] case = "step" ->
            << [step |-> 0, register |-> 0, value |-> inputs[1]],
               [step |-> steps, register |-> 1, value |-> resultOf(inputs, steps)] >>
      [] case = "stepBelow" ->
            << [step |-> 0 - 1, register |-> 1, value |-> inputs[2]],
               [step |-> 0, register |-> registerCount, value |-> inputs[1]] >>

\* the execution trace of the inputs satisfies the assertions
satisfied(i) ==
    validateAssertions(compute(createContext(i.steps, i.extensionFactor), << i.inputs >>),
                       i.assertions) = Ok

\* the single changes made to a proof, or to the assertions, before verify
StarkTampers(p) ==
    { [what |-> w, index |-> 0] :
          w \in {"evaluationNode", "lcNode", "lcValue", "remainder",
                 "evaluationRoot", "degreeRoot", "assertionValue", "noAssertions"} }
    \cup { [what |-> "evaluationValue", index |-> k] :
              k \in {0, registerCount, registerCount + p.evaluations.bpc} }

StarkTampered(p, t) ==
    CASE t.what = "evaluationNode" -> [p EXCEPT !.evaluations.nodes[1] = flip(@)]
      [] t.what = "lcNode"         -> [p EXCEPT !.degree.lcProof.nodes[1] = flip(@)]
      [] t.what = "lcValue"        -> [p EXCEPT !.degree.lcProof.values[1] = flip(@)]
      [] t.what = "remainder"      ->
            [p EXCEPT !.degree.ldProof.remainder[1] = (@ + 1) % modulus]
      [] t.what = "evaluationRoot" -> [p EXCEPT !.evaluations.root = flip(@)]
      [] t.what = "degreeRoot"     -> [p EXCEPT !.degree.root = flip(@)]
      [] t.what = "evaluationValue" ->
            [p EXCEPT !.evaluations.values[1][t.index + 1] = (@ + 1) % modulus]
      [] OTHER -> p

\* the assertions verify is called with
assertionsGiven(assertions, t) ==
    CASE t.what = "assertionValue" -> [assertions EXCEPT ![1].value = (@ + 1) % modulus]
      [] t.what = "noAssertions"   -> << >>
      [] OTHER -> assertions

(***************************************************************************)
(* Serializer: the proof on the wire and back.  A buffer is a sequence of  *)
(* bytes.  A field element takes elementSize = 2 bytes, little endian; a   *)
(* digest of the idealised hash has no fixed width and is written behind   *)
(* its length, as are the lists of values and nodes of a Merkle proof and  *)
(* the remainder.  The number of components is not written: the parser     *)
(* derives it from the size of the domain.                                 *)
(***************************************************************************)
elementSize == 2

writeElements(values) ==
    Vec([k \in 1..(elementSize * Len(values)) |->
            IF k % 2 = 1 THEN values[(k + 1) \div 2] % 256 ELSE values[k \div 2] \div 256])

writeDigest(d) == << Len(d) >> \o d

\* the buffers lo .. hi of a sequence of buffers, one after the other
RECURSIVE joined(_, _, _)
joined(buffers, lo, hi) ==
    IF lo > hi THEN << >>
    ELSE IF lo = hi THEN buffers[lo]
    ELSE joined(buffers, lo, (lo + hi) \div 2) \o joined(buffers, (lo + hi) \div 2 + 1, hi)

writeBuffers(values) ==
    joined(Vec([k \in 1..Len(values) |-> writeElements(values[k])]), 1, Len(values))

writeDigests(nodes) ==
    joined(Vec([k \in 1..Len(nodes) |-> writeDigest(nodes[k])]), 1, Len(nodes))

\* depth | values | nodes
writeMerkleProof(proof) ==
    << proof.depth, Len(proof.values) >> \o writeBuffers(proof.values)
    \o << Len(proof.nodes) >> \o writeDigests(proof.nodes)

writeComponent(component) ==
    writeDigest(component.columnRoot) \o writeMerkleProof(component.columnProof)
    \o writeMerkleProof(component.polyProof)

writeComponents(components) ==
    joined(Vec([k \in 1..Len(components) |-> writeComponent(components[k])]),
           1, Len(components))

\* lcRoot | lcProof | component ... | remainder_len | remainder
writeLowDegreeProof(proof) ==
    writeDigest(proof.lcRoot) \o writeMerkleProof(proof.lcProof)
    \o writeComponents(proof.components)
    \o << Len(proof.remainder) >> \o writeElements(proof.remainder)

serializeProof(proof) ==
    writeDigest(proof.evaluations.root) \o << proof.evaluations.bpc >>
    \o writeMerkleProof(proof.evaluations)
    \o writeDigest(proof.degree.root) \o writeMerkleProof(proof.degree.lcProof)
    \o writeLowDegreeProof(proof.degree.ldProof)

\* what a reader leaves: the value read and the offset of the next byte
Read(value, next) == [value |-> value, next |-> next]

\* a byte of the buffer; past its end there is none, and the parse will fail
byteAt(buffer, offset) == IF offset \in 1..Len(buffer) THEN buffer[offset] ELSE 0

readElements(buffer, offset, count) ==
    Vec([k \in 1..count |-> byteAt(buffer, offset + elementSize * (k - 1))
                            + 256 * byteAt(buffer, offset + elementSize * (k - 1) + 1)])

readDigest(buffer, offset) ==
    Read(IF offset + byteAt(buffer, offset) <= Len(buffer)
         THEN SubSeq(buffer, offset + 1, offset + byteAt(buffer, offset))
         ELSE << >>,
         offset + 1 + byteAt(buffer, offset))

\* count digests one after the other; digests holds those read so far
RECURSIVE readDigestsFrom(_, _, _, _)
readDigestsFrom(buffer, offset, count, digests) ==
    IF Len(digests) = count THEN Read(digests, offset)
    ELSE IF offset > Len(buffer) THEN Read(digests, offset + count - Len(digests))
    ELSE readDigestsFrom(buffer, readDigest(buffer, offset).next, count,
                         Append(digests, readDigest(buffer, offset).value))

readDigests(buffer, offset, count) == readDigestsFrom(buffer, offset, count, << >>)

readMerkleNodes(depth, values, nodes) ==
    Read([values |-> values, nodes |-> nodes.value, depth |-> depth], nodes.next)

readMerkleValues(buffer, offset, width, depth, count) ==
    readMerkleNodes(depth,
        Vec([i \in 1..count |->
                readElements(buffer, offset + elementSize * width * (i - 1), width)]),
        readDigests(buffer, offset + elementSize * width * count + 1,
                    byteAt(buffer, offset + elementSize * width * count)))

\* a Merkle proof whose values are width field elements each
readMerkleProof(buffer, offset, width) ==
    readMerkleValues(buffer, offset + 2, width, byteAt(buffer, offset),
                     byteAt(buffer, offset + 1))

\* the number of components of a low degree proof over a domain of 2^logSize
\* values
impliedComponentCount(logSize) ==
    Max(0, (logSize + 1) \div 2 - Log2(MAX_REMAINDER_LENGTH) \div 2)

RECURSIVE readComponents(_, _, _)
readComponentPoly(columnRoot, columnProof, polyProof) ==
    CASE computed(polyProof) ->
        Read([ columnRoot  |-> columnRoot.value,
               columnProof |-> columnProof.value,
               polyProof   |-> polyProof.value ], polyProof.next)

readComponentColumn(buffer, columnRoot, columnProof) ==
    CASE computed(columnProof) ->
        readComponentPoly(columnRoot, columnProof, readMerkleProof(buffer, columnProof.next, 4))

readComponent(buffer, columnRoot) ==
    CASE computed(columnRoot) ->
        readComponentColumn(buffer, columnRoot, readMerkleProof(buffer, columnRoot.next, 4))

readComponentsAfter(head, rest) == Read(<< head.value >> \o rest.value, rest.next)

readComponentsFrom(buffer, head, count) ==
    readComponentsAfter(head, readComponents(buffer, head.next, count - 1))

readComponents(buffer, offset, count) ==
    IF count = 0 THEN Read(<< >>, offset)
    ELSE IF offset > Len(buffer) THEN Read(<< >>, offset + count)
    ELSE readComponentsFrom(buffer, readComponent(buffer, readDigest(buffer, offset)), count)

readRemainder(buffer, lcRoot, lcProof, components) ==
    CASE computed(components) ->
        Read([ lcRoot     |-> lcRoot.value,
               lcProof    |-> lcProof.value,
               components |-> components.value,
               remainder  |-> readElements(buffer, components.next + 1,
                                           byteAt(buffer, components.next)) ],
             components.next + 1 + elementSize * byteAt(buffer, components.next))

\* the tree of the linear combination has a leaf for every 4 values of the domain
readLowDegreeComponents(buffer, lcRoot, lcProof) ==
    CASE computed(lcProof) ->
        readRemainder(buffer, lcRoot, lcProof,
            readComponents(buffer, lcProof.next, impliedComponentCount(lcProof.value.depth + 2)))

readLowDegreeRoot(buffer, lcRoot) ==
    CASE computed(lcRoot) ->
        readLowDegreeComponents(buffer, lcRoot, readMerkleProof(buffer, lcRoot.next, 4))

readLowDegreeProof(buffer, offset) == readLowDegreeRoot(buffer, readDigest(buffer, offset))

\* the proof read, or the error of a read past the end of the buffer
parsed(buffer, eRoot, bpc, evaluations, lRoot, lcProof, ldProof) ==
    IF ldProof.next > Len(buffer) + 1
    THEN Thrown(Throws("RangeError", "Index out of range", 0))
    ELSE [ error |-> Ok,
           proof |-> [ evaluations |-> [ root   |-> eRoot.value,
                                         values |-> evaluations.value.values,
                                         nodes  |-> evaluations.value.nodes,
                                         depth  |-> evaluations.value.depth,
                                         bpc    |-> bpc ],
                       degree      |-> [ root    |-> lRoot.value,
                                         lcProof |-> lcProof.value,
                                         ldProof |-> ldProof.value ] ] ]

parseDegree(buffer, eRoot, bpc, evaluations, lRoot, lcProof) ==
    CASE computed(lcProof) ->
        parsed(buffer, eRoot, bpc, evaluations, lRoot, lcProof,
               readLowDegreeProof(buffer, lcProof.next))

parseDegreeRoot(buffer, eRoot, bpc, evaluations, lRoot) ==
    CASE computed(lRoot) ->
        parseDegree(buffer, eRoot, bpc, evaluations, lRoot,
                    readMerkleProof(buffer, lRoot.next, 1))

parseEvaluationProof(buffer, eRoot, bpc, evaluations) ==
    CASE computed(evaluations) ->
        parseDegreeRoot(buffer, eRoot, bpc, evaluations, readDigest(buffer, evaluations.next))

parseEvaluationRoot(buffer, eRoot, valueCount) ==
    CASE computed(buffer) /\ computed(eRoot) ->
        parseEvaluationProof(buffer, eRoot, byteAt(buffer, eRoot.next),
            readMerkleProof(buffer, eRoot.next + 1, valueCount + byteAt(buffer, eRoot.next)))

\* the evaluations at a position are those of the registers, of the boundary
\* constraints and of the transition constraints
parseProof(buffer, registers, constraints) ==
    parseEvaluationRoot(buffer, readDigest(buffer, 1), registers + constraints)

\* Stark.serialize(proof)
Stark_serialize(proof) == serializeProof(proof)

\* a parse that takes the constant registers for registers of the trace
Stark_parseAllRegisters(buffer) == parseProof(buffer, registerCount + 1, constraintCount)

\* Stark.parse(buffer): the proof, or the error it throws
Stark_parse(buffer) == parseProof(buffer, registerCount, constraintCount)

\* Stark.prove is called
StarkProve ==
    /\ phase = "start"
    /\ \E steps \in StepCounts, e \in ExtensionFactors, id \in 0..(InputCount - 1),
          case \in AssertionCases :
          /\ version' = "stark"
          /\ input' = [ steps |-> steps, extensionFactor |-> e, inputs |-> initValues(id),
                        assertions |-> assertionsFor(case, initValues(id), steps) ]
          /\ proved' = Stark_prove(assertionsFor(case, initValues(id), steps),
                                   initValues(id), steps, e)
          /\ given' = proved'.proof
    /\ phase' = "proved"
    /\ UNCHANGED << tamper, call, calls, first >>

\* the proof, or the assertions, are changed in one place before verify
StarkTamper ==
    /\ phase = "proved"
    /\ proved.error = Ok
    /\ tamper = NoTamper
    /\ \E t \in StarkTampers(proved.proof) :
          /\ tamper' = t
          /\ given' = StarkTampered(proved.proof, t)
    /\ UNCHANGED << phase, version, input, proved, call, calls, first >>

\* the proof goes over the wire before verify: Stark.serialize, then
\* Stark.parse, which gives the caller a proof or throws
StarkSerialize ==
    /\ phase = "proved"
    /\ proved.error = Ok
    /\ tamper = NoTamper
    /\ tamper' = [what |-> "serialized", index |-> 0,
                  error |-> Stark_parse(Stark_serialize(proved.proof)).error]
    /\ given' = Stark_parse(Stark_serialize(proved.proof)).proof
    /\ phase' = IF tamper'.error = Ok THEN "proved" ELSE "failed"
    /\ UNCHANGED << version, input, proved, call, calls, first >>

\* Stark.verify is called on the proof
StarkVerifyBegin ==
    /\ phase = "proved"
    /\ proved.error = Ok
    /\ calls = 0
    /\ call' = Stark_verifyBegin(assertionsGiven(input.assertions, tamper), given,
                                 input.steps, input.extensionFactor)
    /\ calls' = calls + 1
    /\ phase' = IF call'.pc = "done" THEN "verified" ELSE "verifying"
    /\ first' = IF call'.pc = "done" THEN call'.outcome ELSE first
    /\ UNCHANGED << version, input, proved, tamper, given >>

\* the running call executes its next stage
StarkVerifyStep ==
    /\ phase = "verifying"
    /\ call' = Stark_verifyStep(call)
    /\ phase' = IF call'.pc = "done" THEN "verified" ELSE "verifying"
    /\ first' = IF call'.pc = "done" THEN call'.outcome ELSE first
    /\ UNCHANGED << version, input, proved, tamper, given, calls >>

StarkNext ==
    StarkProve \/ StarkTamper \/ StarkSerialize \/ StarkVerifyBegin \/ StarkVerifyStep

SpecStark == Init /\ [][StarkNext]_vars

(***************************************************************************)
(* Properties of Stark.prove and Stark.verify.                             *)
(***************************************************************************)
\* C1: completeness.  Whenever the execution trace of the inputs satisfies
\* the assertions, Stark.prove returns a proof, and Stark.verify, called with
\* the same assertions on that proof as it is, returns true without throwing.
C1_Completeness ==
    (version = "stark" /\ satisfied(input)) =>
        /\ proved.error = Ok
        /\ (phase = "verified" /\ tamper = NoTamper) => call.outcome = Returns(TRUE)

\* C2: Stark.verify and the LowDegreeProver.verify it calls never return
\* false: a call that has ended has returned true or has thrown an error.
C2_NeverReturnsFalse ==
    /\ call.pc = "done" => (call.outcome = Returns(TRUE) \/ call.outcome.kind = "throw")
    /\ ("ld" \in DOMAIN call /\ call.ld.pc = "done") =>
           (call.ld.outcome = Returns(TRUE) \/ call.ld.outcome.kind = "throw")

\* a call of Stark.verify threw for a constraint that did not hold, after the
\* LowDegreeProver.verify it called had returned true
C2_Witness ==
    /\ phase = "verified"
    /\ call.outcome.kind = "throw"
    /\ call.outcome.type = "StarkError"
    /\ call.log[Len(call.log)].check \in {"transition", "boundary", "linearCombination"}
    /\ call.ld.outcome = Returns(TRUE)

\* C3: whenever MerkleTree.verifyBatch returns false for the evaluation Merkle
\* proof or for the linear combination Merkle proof, Stark.verify throws: the
\* failed check is the last one it executes, and the call ends with an error.
C3_FailedMerkleCheckThrows ==
    \A k \in 1..Len(call.log) :
        (call.log[k].check \in {"evaluationMerkle", "lcMerkle"} /\ ~call.log[k].ok) =>
            /\ k = Len(call.log)
            /\ call.outcome.kind = "throw"

(***************************************************************************)
(* Properties of LowDegreeProver.                                          *)
(***************************************************************************)
\* the proof reached the verifier as prove returned it
Honest == tamper = NoTamper

\* the first verify call on the proof has ended
FirstCallEnded == phase = "verified" /\ calls = 1

checksOf(log) == {log[i] : i \in 1..Len(log)}

FoldError(depth) ==
    StarkError("Degree 4 polynomial didn't evaluate to column value at depth", depth)

ColumnError(depth) ==
    StarkError("Verification of column Merkle proof failed at depth", depth)

RemainderRootError ==
    StarkError("Remainder values do not match Merkle root of the last column", 0)

\* C4: on a proof as returned by prove, the row polynomial check never fails:
\* the call does not end with the fold error of any depth, and once it has
\* ended the check was executed for every component of the proof
C4_FoldConsistency ==
    (Honest /\ calls = 1) =>
        /\ \A k \in 0..Len(given.components) : call.outcome # FoldError(k)
        /\ phase = "verified" =>
              \A k \in 0..(Len(given.components) - 1) :
                  Check("fold", k) \in checksOf(call.log)

C4_Witness ==
    /\ FirstCallEnded /\ Honest
    /\ Len(given.components) = 2
    /\ Check("fold", 1) \in checksOf(call.log)
    /\ call.outcome = Returns(TRUE)

\* verify accepts the proof p when called with the arguments a
accepts(v, p, a) == verifyRun(verifyBegin(v, p, a)).outcome = Returns(TRUE)

\* C5: when the columnRoot of one component of an accepted proof is replaced
\* by a different digest and nothing else is changed, verify throws
C5_ColumnRootBinding ==
    (FirstCallEnded /\ tamper.what = "columnRoot"
        /\ accepts(version, proved.proof, proved.args)) =>
        call.outcome.kind = "throw"

C5_Witness ==
    /\ FirstCallEnded
    /\ tamper.what = "columnRoot" /\ tamper.depth = 1
    /\ given.components[2].columnRoot # proved.proof.components[2].columnRoot
    /\ accepts(version, proved.proof, proved.args)
    /\ call.outcome.kind = "throw"

\* the checks verify executes up to the column Merkle proof of depth k
checksUpToColumn(v, k) ==
    (IF v = "new" THEN << Check("lcMerkle", 0), Check("lcValues", 0) >> ELSE <<>>)
    \o [i \in 1..(3 * k) |->
          Check(<< "columnMerkle", "polyMerkle", "fold" >>[((i - 1) % 3) + 1], (i - 1) \div 3)]
    \o << Check("columnMerkle", k) >>

\* C6: when only a node of components[k].columnProof of a valid proof is
\* corrupted, verify executes the checks of depths 0..k-1 in ascending order,
\* all of which pass, then throws the column Merkle proof error of depth k,
\* and executes no check of a later depth or of the remainder
C6_AbortsAtFirstFailure ==
    (FirstCallEnded /\ tamper.what = "columnNode") =>
        /\ call.outcome = ColumnError(tamper.depth)
        /\ call.log = checksUpToColumn(version, tamper.depth)

C6_Witness ==
    /\ FirstCallEnded
    /\ tamper.what = "columnNode" /\ tamper.depth = 1
    /\ call.outcome = ColumnError(1)
    /\ Check("fold", 0) \in checksOf(call.log)

\* C7: when one element of the remainder of a valid proof is replaced by a
\* different field element, verify throws the Merkle root mismatch error or
\* the remainder degree error
C7_RemainderTamperRejected ==
    (FirstCallEnded /\ tamper.what = "remainder") =>
        \/ call.outcome = RemainderRootError
        \/ call.outcome = RemainderError(call.maxDegreePlus1)

C7_Witness ==
    /\ FirstCallEnded
    /\ tamper.what = "remainder"
    /\ given.remainder # proved.proof.remainder
    /\ call.outcome = RemainderRootError

isPowerOf2(n) == n >= 1 /\ 2 ^ Log2(n) = n

\* C8: the remainder of a proof returned by prove has a length that is a power
\* of two, at most MAX_REMAINDER_LENGTH, and equal to N / 4^c for c components
C8_RemainderLength ==
    (phase # "start" /\ proved.error = Ok) =>
        LET length == Len(proved.proof.remainder)
            c == Len(proved.proof.components)
        IN  /\ isPowerOf2(length)
            /\ length <= MAX_REMAINDER_LENGTH
            /\ length * (4 ^ c) = input.n

C8_Witness ==
    /\ phase = "proved" /\ proved.error = Ok
    /\ input.n = 2048
    /\ Len(proved.proof.components) = 2
    /\ Len(proved.proof.remainder) = 128

\* C9: two verify calls with the same arguments, the very same proof object
\* included, end the same way
C9_SameVerdictTwice ==
    (phase = "verified" /\ calls = 2) => call.outcome = first

\* C10: when verify has returned or thrown, the values of the proof's
\* columnProof, polyProof and lcProof and its remainder are what they were
\* before the call
C10_ProofUnchanged ==
    FirstCallEnded =>
        /\ \A k \in 1..Len(given.components) :
              /\ call.proof.components[k].columnProof.values
                    = given.components[k].columnProof.values
              /\ call.proof.components[k].polyProof.values
                    = given.components[k].polyProof.values
        /\ call.proof.lcProof.values = given.lcProof.values
        /\ call.proof.remainder = given.remainder

\* the digest the prover's fri() at the depth took its x coordinate from, the
\* root of its pTree: the linear combination tree, then the column tree of
\* the depth before, as its proof names them
provedSeed(depth) ==
    IF depth = 0 THEN proved.proof.lcRoot ELSE proved.proof.components[depth].columnRoot

\* the positions the prover's fri() at the depth opened its column at
provedFriPositions(depth) ==
    getFriIndexes(proved.proof.components[depth + 1].columnRoot,
                  input.n \div (4 ^ (depth + 1)))

\* the positions the verifier opens the column of its next component at
verifiedFriPositions(f) ==
    getFriIndexes(f.proof.components[f.depth + 1].columnRoot, f.columnLength)

\* C17: prover and verifier consume the commitments in the same order: at
\* every depth k the verifier takes its x coordinate from lcRoot (k = 0) or
\* components[k-1].columnRoot and its positions from components[k].columnRoot
\* with the column length N / 4^(k+1), as the prover did, so that positions
\* and augmented positions are the same lists and every check on an
\* unchanged proof is reached.
C17_SameCommitmentOrder ==
    (version = "new" /\ phase \in {"verifying", "verified"}) =>
        /\ call.pc = "component" =>
              /\ call.pRoot = IF call.depth = 0 THEN call.proof.lcRoot
                              ELSE call.proof.components[call.depth].columnRoot
              /\ call.columnLength = input.n \div (4 ^ (call.depth + 1))
              /\ Honest =>
                    /\ call.pRoot = provedSeed(call.depth)
                    /\ verifiedFriPositions(call) = provedFriPositions(call.depth)
                    /\ getAugmentedPositions(verifiedFriPositions(call), call.columnLength)
                         = getAugmentedPositions(provedFriPositions(call.depth),
                                                 input.n \div (4 ^ (call.depth + 1)))
        /\ (Honest /\ call.pc = "done") =>
              \A k \in 0..(Len(call.proof.components) - 1) :
                  {Check("columnMerkle", k), Check("polyMerkle", k), Check("fold", k)}
                      \subseteq checksOf(call.log)

\* the verifier went through the two components of an unchanged proof
C17_Witness ==
    /\ version = "new"
    /\ phase = "verified"
    /\ Honest
    /\ Len(call.proof.components) >= 2
    /\ call.depth = Len(call.proof.components)
    /\ call.outcome = Returns(TRUE)

\* the least c with n / 4^c <= MAX_REMAINDER_LENGTH
leastComponentCount(n) ==
    CHOOSE c \in 0..MaxLogDomain :
        /\ n <= MAX_REMAINDER_LENGTH * (4 ^ c)
        /\ c > 0 => n > MAX_REMAINDER_LENGTH * (4 ^ (c - 1))

\* C23: for every power-of-two domain size N >= 4, prove returns a proof
\* with exactly c components, c the least integer with N / 4^c <= 256; when
\* N <= 256 there is no component and the remainder is the input vector in
\* its original order.
C23_ProveReturns ==
    (phase # "start" /\ version = "new") =>
        /\ proved.error = Ok
        /\ Len(proved.proof.components) = leastComponentCount(input.n)
        /\ input.n <= MAX_REMAINDER_LENGTH =>
              /\ proved.proof.components = <<>>
              /\ proved.proof.remainder = provedInput

\* C26: verify returns true only for proofs whose remainder length is a
\* power of two not above 256 and whose number of components is the one
\* implied by the domain size N: a proof with fewer components and a longer
\* remainder is rejected.
C26_RemainderLengthChecked ==
    (FirstCallEnded /\ call.outcome = Returns(TRUE)) =>
        /\ isPowerOf2(Len(given.remainder))
        /\ Len(given.remainder) <= MAX_REMAINDER_LENGTH
        /\ Len(given.components) = leastComponentCount(input.n)

\* the multiplicative order of w is the power of two n
hasOrder(w, n) == exp(w, n) = 1 /\ (n > 1 => exp(w, n \div 2) # 1)

\* the verify call is about to verify the remainder, or has ended there
atRemainder(f) ==
    \/ f.pc = "remainder"
    \/ f.pc = "done" /\ f.log # <<>> /\ f.log[Len(f.log)].depth = Len(f.proof.components)
                     /\ f.log[Len(f.log)].check
                            \in {"remainderLength", "remainderRoot", "remainderDegree"}

\* C22: at the start of iteration k of the verifier's component loop
\* rootOfUnity is g^(4^k) and has the order N / 4^k; at the remainder the
\* verifier holds the root g^(4^c) the prover passed to verifyRemainder, and
\* its order is the remainder length (c components).
C22_RootOfUnity ==
    (phase \in {"verifying", "verified"}) =>
        /\ call.pc = "component" =>
              /\ call.rootOfUnity = exp(proved.args.rootOfUnity, 4 ^ call.depth)
              /\ hasOrder(call.rootOfUnity, input.n \div (4 ^ call.depth))
        /\ atRemainder(call) =>
              /\ call.depth = Len(call.proof.components)
              /\ call.rootOfUnity = exp(proved.args.rootOfUnity, 4 ^ call.depth)
              /\ Len(call.proof.components) = Len(proved.proof.components) =>
                    call.rootOfUnity = friRootOfUnity(evaluationDomain(input.n),
                                                      Len(proved.proof.components))
              /\ hasOrder(call.rootOfUnity, Len(call.proof.remainder))

\* the verifier reached the remainder behind two components
C22_Witness ==
    /\ phase = "verifying"
    /\ call.pc = "remainder"
    /\ call.depth = 2
    /\ call.rootOfUnity = exp(proved.args.rootOfUnity, 16)
    /\ Len(call.proof.remainder) = 128

(***************************************************************************)
(* Properties of the execution query positions, of the errors of the low   *)
(* degree prover and of the linear combination inside Stark.               *)
(***************************************************************************)
\* Stark.verify from its first check to its end
RECURSIVE Stark_verifyRun(_)
Stark_verifyRun(f) == IF f.pc = "done" THEN f ELSE Stark_verifyRun(Stark_verifyStep(f))

\* the frame is one of a Stark.verify call that has drawn its positions
hasPositions(f) == "augmentedPositions" \in DOMAIN f

\* the position one step after p
oneStepLater(p) == (p + input.extensionFactor) % (input.steps * input.extensionFactor)

\* p and the position one step later, for every position in turn
withNextPositions(positions) ==
    Vec([k \in 1..(2 * Len(positions)) |->
            IF k % 2 = 1 THEN positions[(k + 1) \div 2] ELSE oneStepLater(positions[k \div 2])])

\* the index at which the value is first added
firstAdded(added, a) ==
    CHOOSE k \in 1..Len(added) : added[k] = a /\ \A j \in 1..(k - 1) : added[j] # a

\* C28: in Stark.verify, when proof.evaluations.values has one entry per
\* augmented position, the decoded P(x) evaluations exist at every query
\* position p and at (p + extensionFactor) mod N: getAugmentedPositions holds
\* both for every p, without duplicates, in insertion order.
C28_NextPositionDecoded ==
    (version = "stark" /\ phase \in {"verifying", "verified"} /\ hasPositions(call)
        /\ Len(call.proof.evaluations.values) = Len(call.augmentedPositions)) =>
        LET result == call.augmentedPositions
            added == withNextPositions(call.positions)
        IN  /\ \A i \in 1..Len(call.positions) :
                  /\ has(call.pEvaluations, call.positions[i])
                  /\ has(call.pEvaluations, oneStepLater(call.positions[i]))
            /\ {result[i] : i \in 1..Len(result)} = {added[k] : k \in 1..Len(added)}
            /\ \A i \in 1..Len(result) : \A j \in 1..Len(result) :
                  /\ i # j => result[i] # result[j]
                  /\ i < j => firstAdded(added, result[i]) < firstAdded(added, result[j])

\* verify has checked the constraints at two positions with the values
\* decoded at four
C28_Witness ==
    /\ version = "stark" /\ phase = "verified" /\ hasPositions(call)
    /\ call.outcome = Returns(TRUE)
    /\ Len(call.positions) = 2
    /\ Len(call.augmentedPositions) = 4
    /\ Len(call.proof.evaluations.values) = 4
    /\ \A i \in 1..2 : has(call.pEvaluations, oneStepLater(call.positions[i]))

\* the trace Stark.prove computed from its inputs
provedTrace == compute(createContext(input.steps, input.extensionFactor), << input.inputs >>)

\* what is wrong with an assertion, if anything
faultOf(trace, a) ==
    IF a.register \notin 0..(Len(trace) - 1) THEN "register"
    ELSE IF a.step \notin 0..(Len(trace[1]) - 1) THEN "step"
    ELSE IF trace[a.register + 1][a.step + 1] # a.value THEN "conflict"
    ELSE "none"

\* the first assertion with a fault, 0 when there is none
firstFaulty(trace, assertions) ==
    IF \A k \in 1..Len(assertions) : faultOf(trace, assertions[k]) = "none" THEN 0
    ELSE CHOOSE k \in 1..Len(assertions) :
            /\ faultOf(trace, assertions[k]) # "none"
            /\ \A j \in 1..(k - 1) : faultOf(trace, assertions[j]) = "none"

assertionMessages ==
    [ register |-> "Invalid assertion: register is outside of register bank",
      step     |-> "Invalid assertion: step is outside of execution trace",
      conflict |-> "Assertion conflicts with execution trace" ]

\* C29: validateAssertions throws when an assertion's register is outside
\* [0, register count), when its step is outside [0, trace length), or when
\* its value differs from trace[register][step], and returns normally
\* otherwise; Stark.prove runs it before any Merkle tree is built, so that an
\* assertion with a fault yields the error and no proof.
C29_AssertionsValidated ==
    (version = "stark" /\ phase # "start") =>
        LET k == firstFaulty(provedTrace, input.assertions)
        IN  IF k = 0
            THEN /\ validateAssertions(provedTrace, input.assertions) = Ok
                 /\ proved.error.kind = "throw" =>
                       proved.error.msg \notin {assertionMessages[f] : f \in DOMAIN assertionMessages}
            ELSE /\ proved.error.kind = "throw"
                 /\ proved.error.type = (IF faultOf(provedTrace, input.assertions[k]) = "conflict"
                                         THEN "StarkError" ELSE "Error")
                 /\ proved.error.msg
                       = assertionMessages[faultOf(provedTrace, input.assertions[k])]
                 /\ proved.proof = NoStarkProof

\* prove has thrown on an assertion that conflicts with the trace at its
\* last step
C29_Witness ==
    /\ version = "stark" /\ phase = "proved"
    /\ firstFaulty(provedTrace, input.assertions) = 2
    /\ faultOf(provedTrace, input.assertions[2]) = "conflict"
    /\ proved.error = StarkError("Assertion conflicts with execution trace", input.steps - 1)
    /\ proved.proof = NoStarkProof

SameEvaluationRoot ==
    /\ version = "stark"
    /\ phase \in {"verifying", "verified"}
    /\ "positions" \in DOMAIN call
    /\ call.proof.evaluations.root = proved.proof.evaluations.root

\* the positions Stark.prove queried its evaluation tree at (step 9)
provedPositions ==
    getPseudorandomIndexes(proved.proof.evaluations.root,
        spotCheckCount(input.steps * input.extensionFactor, input.extensionFactor),
        input.steps * input.extensionFactor, input.extensionFactor)

C16_LowDegreeErrorsWrapped ==
    version = "stark" =>
        /\ (satisfied(input) /\ proved.error # Ok) =>
              /\ proved.error = StarkErrorCausedBy("Low degree proof failed", proved.error.cause)
              /\ proved.error.cause.kind = "throw"
              /\ proved.proof = NoStarkProof
        /\ (/\ phase \in {"verifying", "verified"}
            /\ "ld" \in DOMAIN call
            /\ call.ld.pc = "done"
            /\ call.ld.outcome.kind = "throw") =>
              /\ call.pc \in {"lowDegree", "done"}
              /\ call.pc = "done" =>
                    call.outcome = StarkErrorCausedBy("Verification of low degree failed",
                                                      call.ld.outcome)

\* LowDegreeProver.verify threw inside Stark.verify, which has ended
C16_Witness ==
    /\ version = "stark"
    /\ phase = "verified"
    /\ "ld" \in DOMAIN call
    /\ call.ld.pc = "done"
    /\ call.ld.outcome.kind = "throw"
    /\ call.outcome.kind = "throw"

zeroVector(length) == [i \in 1..length |-> 0]

\* the number of vectors Stark.prove combined, which is the number of
\* coefficients it drew: that of the evaluations of its P(x), B(x) and D(x)
provedCoefficientCount ==
    Len(allEvaluations(createContext(input.steps, input.extensionFactor),
            [j \in 1..registerCount |-> zeroVector(input.steps * input.extensionFactor)],
            [j \in 1..proved.proof.evaluations.bpc |->
                zeroVector(input.steps * input.extensionFactor)],
            [j \in 1..constraintCount |-> zeroVector(input.steps * input.extensionFactor)],
            getLinearCombinationDegree(input.steps * input.extensionFactor,
                                       input.extensionFactor)))

\* C18: Stark.verify draws as many linear combination coefficients as
\* Stark.prove drew, the number of vectors the prover combined, and combines
\* that many values at each query position.
C18_SameCoefficientCount ==
    (version = "stark" /\ phase \in {"verifying", "verified"} /\ "bPoly" \in DOMAIN call) =>
        /\ lPolyCount(call.bPoly) = provedCoefficientCount
        /\ Len(lcValuesAt(call.context, 1,
                          [j \in 1..registerCount |-> 0],
                          [j \in 1..Len(call.bPoly) |-> 0],
                          [j \in 1..constraintCount |-> 0],
                          getLinearCombinationDegree(call.context.domainSize,
                                                     call.context.extensionFactor)))
               = provedCoefficientCount

(***************************************************************************)
(* The helper functions on their own: a caller applies one of them to an   *)
(* input and holds the result.  version names the function, input its      *)
(* arguments, proved what it returned or threw.                            *)
(***************************************************************************)
ComponentCount ==
    \E k \in 0..(MaxLogDomain + 1) :
        /\ phase = "start"
        /\ phase' = "computed"
        /\ version' = "getComponentCount"
        /\ input' = [n |-> 2 ^ k]
        /\ proved' = [new |-> getComponentCount(2 ^ k), old |-> componentCountOld(2 ^ k)]
        /\ UNCHANGED << tamper, given, call, calls, first >>

\* C13: the component count the prover derives from a power-of-two domain size
\* N, in getComponentCount and in the older prove alike, is
\* max(0, ceil(log2(N) / 2) - log2(256) / 2).
C13_ComponentCount ==
    version = "getComponentCount" =>
        /\ proved.new = Max(0, (Log2(input.n) + 1) \div 2 - Log2(256) \div 2)
        /\ proved.old = Max(0, (Log2(input.n) + 1) \div 2 - Log2(256) \div 2)

(***************************************************************************)
(* validateSecurityOptions.  A numeric option is held as the number of its *)
(* halves, so that 5 stands for 2.5 and 8 for 4; Absent stands for an      *)
(* option that is undefined or for which no options object is given, and   *)
(* NoName for a hash algorithm that is not named.                          *)
(***************************************************************************)
DEFAULT_EXE_SPOT_CHECKS == 80
DEFAULT_FRI_SPOT_CHECKS == 40
MAX_EXTENSION_FACTOR == 32
MAX_EXE_SPOT_CHECK_COUNT == 128
MAX_FRI_SPOT_CHECK_COUNT == 64

Absent == Undefined

\* no hash algorithm named
NoName == ""

whole(n) == 2 * n

isInteger(h) == h % 2 = 0

\* value || otherwise
orElse(h, otherwise) == IF h = Absent \/ h = 0 THEN whole(otherwise) ELSE h

\* Math.ceil(Math.log2(n)), n >= 1
ceilLog2(n) == IF isPowerOf2(n) THEN Log2(n) ELSE Log2(n) + 1

HASH_ALGORITHMS == {"sha256", "blake2s256"}

\* the extension factor: the default, or the given one when the checks pass
validExtensionFactor(h, degree) ==
    IF h = Absent
    THEN [error |-> Ok, value |-> whole(2 ^ ceilLog2(degree * 2))]
    ELSE IF h < whole(2) \/ h > whole(MAX_EXTENSION_FACTOR) \/ ~isInteger(h)
    THEN [error |-> Throws("TypeError", "Extension factor must be an integer between 2 and 32", 0),
          value |-> h]
    ELSE IF ~isPowerOf2(h \div 2)
    THEN [error |-> Throws("TypeError", "Extension factor must be a power of 2", 0), value |-> h]
    ELSE IF h < whole(2 * degree)
    THEN [error |-> Throws("TypeError", "Extension factor must be at least 2x greater than the transition constraint degree", 0),
          value |-> h]
    ELSE [error |-> Ok, value |-> h]

\* a spot check count: the given one or the default, when it is in range
validCount(h, default, max, message) ==
    IF orElse(h, default) < whole(1) \/ orElse(h, default) > whole(max)
       \/ ~isInteger(orElse(h, default))
    THEN [error |-> Throws("TypeError", message, 0), value |-> orElse(h, default)]
    ELSE [error |-> Ok, value |-> orElse(h, default)]

validHash(name) ==
    IF (IF name = NoName THEN "sha256" ELSE name) \notin HASH_ALGORITHMS
    THEN [error |-> Throws("TypeError", "Hash algorithm is not supported", 0), value |-> name]
    ELSE [error |-> Ok, value |-> IF name = NoName THEN "sha256" ELSE name]

\* the options returned, or the first error thrown
validatedOptions(e, x, f, h) ==
    [ error |-> IF e.error # Ok THEN e.error
                ELSE IF x.error # Ok THEN x.error
                ELSE IF f.error # Ok THEN f.error
                ELSE h.error,
      extensionFactor   |-> e.value,
      exeSpotCheckCount |-> x.value,
      friSpotCheckCount |-> f.value,
      hashAlgorithm     |-> h.value ]

validateSecurityOptions(options, degree) ==
    validatedOptions(
        validExtensionFactor(options.extensionFactor, degree),
        validCount(options.exeSpotCheckCount, DEFAULT_EXE_SPOT_CHECKS, MAX_EXE_SPOT_CHECK_COUNT,
                   "Execution sample size must be an integer between 1 and 128"),
        validCount(options.friSpotCheckCount, DEFAULT_FRI_SPOT_CHECKS, MAX_FRI_SPOT_CHECK_COUNT,
                   "FRI sample size must be an integer between 1 and 64"),
        validHash(options.hashAlgorithm))

\* the transition constraint degrees tried are 1 .. MaxConstraintDegree
MaxConstraintDegree == 17

\* the options tried: extension factors 0, 0.5, ..., 5, and some around the
\* largest one; counts around the ends of their ranges
ExtensionFactorOptions ==
    {Absent} \cup 0..10 \cup {whole(8), whole(16), whole(24), whole(32), whole(32) + 1, whole(64)}

CountOptions(max) == {Absent, 0, 1, whole(1), whole(max), whole(max) + 1, whole(max + 1)}

HashOptions == {NoName, "sha256", "blake2s256", "md5"}

\* the Stark constructor validates its options
SecurityOptions ==
    \E e \in ExtensionFactorOptions, x \in CountOptions(MAX_EXE_SPOT_CHECK_COUNT),
       f \in {Absent, 0, whole(MAX_FRI_SPOT_CHECK_COUNT) + 2}, h \in HashOptions,
       degree \in {1, 2, MaxConstraintDegree - 1, MaxConstraintDegree} :
        /\ phase = "start"
        /\ phase' = "computed"
        /\ version' = "validateSecurityOptions"
        /\ input' = [ options |-> [extensionFactor |-> e, exeSpotCheckCount |-> x,
                   friSpotCheckCount |-> f, hashAlgorithm |-> h],
                   maxConstraintDegree |-> degree ]
        /\ proved' = validateSecurityOptions(
                    [extensionFactor |-> e, exeSpotCheckCount |-> x,
                    friSpotCheckCount |-> f, hashAlgorithm |-> h], degree)
        /\ UNCHANGED << tamper, given, call, calls, first >>

\* C14: the extension factor of every Stark whose constructor returns is a
\* power of 2 in [2, 32], given or default; any other given extension factor
\* makes the constructor throw.
C14_ExtensionFactor ==
    version = "validateSecurityOptions" =>
        /\ proved.error = Ok =>
              /\ isInteger(proved.extensionFactor)
              /\ isPowerOf2(proved.extensionFactor \div 2)
              /\ proved.extensionFactor >= whole(2)
              /\ proved.extensionFactor <= whole(32)
        /\ (/\ input.options.extensionFactor # Absent
            /\ ~(/\ isInteger(input.options.extensionFactor)
                 /\ isPowerOf2(input.options.extensionFactor \div 2)
                 /\ input.options.extensionFactor >= whole(2)
                 /\ input.options.extensionFactor <= whole(32)))
           => proved.error.kind = "throw"

inRange(h, max) == h # Absent /\ isInteger(h) /\ h >= whole(1) /\ h <= whole(max)

\* C15: a given exeSpotCheckCount that is not an integer in [1, 128], or a
\* given friSpotCheckCount that is not an integer in [1, 64], 0 included, is
\* rejected with an error; an absent count is 80 respectively 40 and an absent
\* hash algorithm is sha256.
C15_SpotCheckCounts ==
    version = "validateSecurityOptions" =>
        /\ (/\ input.options.exeSpotCheckCount # Absent
            /\ ~inRange(input.options.exeSpotCheckCount, 128)) => proved.error.kind = "throw"
        /\ (/\ input.options.friSpotCheckCount # Absent
            /\ ~inRange(input.options.friSpotCheckCount, 64)) => proved.error.kind = "throw"
        /\ input.options.exeSpotCheckCount = Absent => proved.exeSpotCheckCount = whole(80)
        /\ input.options.friSpotCheckCount = Absent => proved.friSpotCheckCount = whole(40)
        /\ input.options.hashAlgorithm = NoName => proved.hashAlgorithm = "sha256"

(***************************************************************************)
(* The degrees of the vectors that enter the linear combination of         *)
(* Stark.prove, for a constraint degree and a number of steps.             *)
(***************************************************************************)
\* getLinearCombinationDegree for a Stark of the given constraint degree
combinationDegree(steps, degree) == steps * Max(degree - 1, 1)

\* the degree of each vector of allEvaluations: the exponent of the power
\* series added where a vector is multiplied by it
combinedDegrees(steps, lCombinationDegree, pDegree, bDegree, dDegree) ==
    IF lCombinationDegree > steps
    THEN << pDegree + (lCombinationDegree - steps), bDegree + (lCombinationDegree - steps),
            pDegree, bDegree, dDegree >>
    ELSE << pDegree, bDegree, dDegree + (steps - 1) >>

\* the degree adjustment of Stark.prove, with P(x) and B(x) of degree
\* steps - 1 and D(x) of degree (degree - 1) * (steps - 1)
CombinationDegrees ==
    \E k \in 1..MaxLogSteps, degree \in 1..MaxConstraintDegree :
        /\ phase = "start"
        /\ phase' = "computed"
        /\ version' = "getLinearCombinationDegree"
        /\ input' = [steps |-> 2 ^ k, maxConstraintDegree |-> degree]
        /\ proved' = [ target  |-> combinationDegree(2 ^ k, degree),
                    degrees |-> combinedDegrees(2 ^ k, combinationDegree(2 ^ k, degree),
                    2 ^ k - 1, 2 ^ k - 1,
                    (degree - 1) * (2 ^ k - 1)) ]
        /\ UNCHANGED << tamper, given, call, calls, first >>

\* C19: in both branches of the degree adjustment every vector that enters
\* the linear combination has a degree below steps * max(maxConstraintDegree
\* - 1, 1), for every maxConstraintDegree >= 1 and steps >= 2.
C19_DegreeBelowTarget ==
    version = "getLinearCombinationDegree" =>
        \A i \in 1..Len(proved.degrees) : proved.degrees[i] < proved.target

(***************************************************************************)
(* verifyRemainder on its own: the remainder is a polynomial of low degree *)
(* evaluated over the domain of a root of unity, changed in at most one    *)
(* position.                                                               *)
(***************************************************************************)
\* the length of the remainders tried is 2^LogRemainder
LogRemainder == 3

\* c0 + c1 x + c2 x^2 over the domain of w, with delta added at one position
\* (none when the position is outside the domain)
remainderOf(c, w, length, position, delta) ==
    Vec([i \in 1..length |->
            add(evalCoefficientsAt(c, at(getPowerSeries(w, length), i - 1)),
                IF i - 1 = position THEN delta ELSE 0)])

RemainderCheck ==
    \E c1 \in 0..1, c2 \in 0..1, d \in 1..2, e \in {0} \cup ExtensionFactors,
       position \in 0..(2 ^ LogRemainder), delta \in {1, 2} :
        /\ phase = "start"
        /\ phase' = "computed"
        /\ version' = "verifyRemainder"
        /\ input' = [ remainder |-> remainderOf(<<1, c1, c2>>, getRootOfUnity(2 ^ LogRemainder),
                   2 ^ LogRemainder, position, delta),
                   maxDegreePlus1 |-> d,
                   rootOfUnity |-> getRootOfUnity(2 ^ LogRemainder),
                   extensionFactor |-> e ]
        /\ proved' = verifyRemainder(remainderOf(<<1, c1, c2>>, getRootOfUnity(2 ^ LogRemainder),
                    2 ^ LogRemainder, position, delta),
                    d, getRootOfUnity(2 ^ LogRemainder), e)
        /\ UNCHANGED << tamper, given, call, calls, first >>

\* one polynomial of degree < d agrees with the remainder at the positions:
\* the polynomial through the first d of them agrees at all of them
agreesAt(remainder, d, w, positions) ==
    LET domain == getPowerSeries(w, Len(remainder))
        poly == interpolate(Vec([i \in 1..d |-> at(domain, positions[i])]),
                            Vec([i \in 1..d |-> at(remainder, positions[i])]))
    IN  \/ Len(positions) <= d
        \/ \A i \in 1..Len(positions) :
              evalPolyAt(poly, at(domain, positions[i])) = at(remainder, positions[i])

allPositions(i) == Range(0, Len(i.remainder) - 1)

\* the positions that are not multiples of the extension factor
checkedPositions(i) ==
    SelectSeq(allPositions(i), LAMBDA p : i.extensionFactor = 0 \/ p % i.extensionFactor # 0)

\* C20 as stated: verifyRemainder returns only if one polynomial of degree
\* < d agrees with the remainder at every one of its R positions, and
\* otherwise throws 'Remainder is not a valid degree ... polynomial'.
C20_AllPositions ==
    version = "verifyRemainder" =>
        IF agreesAt(input.remainder, input.maxDegreePlus1, input.rootOfUnity, allPositions(input))
        THEN proved = Ok
        ELSE proved = RemainderError(input.maxDegreePlus1)

\* C20: verifyRemainder returns only if one polynomial of degree < d agrees
\* with the remainder at every position that is not a multiple of the
\* extension factor (at every position when there is no extension factor),
\* and otherwise throws 'Remainder is not a valid degree ... polynomial'.
C20_CheckedPositions ==
    version = "verifyRemainder" =>
        IF agreesAt(input.remainder, input.maxDegreePlus1, input.rootOfUnity,
                    checkedPositions(input))
        THEN proved = Ok
        ELSE proved = RemainderError(input.maxDegreePlus1)

\* verifyRemainder returned for a remainder that no polynomial of degree < d
\* agrees with at every position: they differ at a multiple of the extension
\* factor only
C20_Witness ==
    /\ version = "verifyRemainder"
    /\ proved = Ok
    /\ Len(checkedPositions(input)) > input.maxDegreePlus1
    /\ ~agreesAt(input.remainder, input.maxDegreePlus1, input.rootOfUnity, allPositions(input))

(***************************************************************************)
(* The degree bound on its way down the layers: fri() passes it to its     *)
(* recursive call, verify() updates it after every component.              *)
(***************************************************************************)
\* the degree bounds tried are 1 .. MaxDegreePlus1
MaxDegreePlus1 == 40

\* the layers tried
MaxDepth == 2

\* the bound fri() holds at the depth
RECURSIVE friBound(_, _)
friBound(maxDegreePlus1, depth) ==
    IF depth = 0 THEN maxDegreePlus1
    ELSE friBound(friMaxDegreePlus1(maxDegreePlus1), depth - 1)

\* the bound verify() holds after as many components
RECURSIVE verifyBound(_, _)
verifyBound(maxDegreePlus1, depth) ==
    IF depth = 0 THEN maxDegreePlus1
    ELSE verifyBound(verifyMaxDegreePlus1(maxDegreePlus1), depth - 1)

DegreeBounds ==
    \E d \in 1..MaxDegreePlus1, k \in 0..MaxDepth :
        /\ phase = "start"
        /\ phase' = "computed"
        /\ version' = "maxDegreePlus1"
        /\ input' = [maxDegreePlus1 |-> d, depth |-> k]
        /\ proved' = [fri |-> friBound(d, k), verify |-> verifyBound(d, k)]
        /\ UNCHANGED << tamper, given, call, calls, first >>

ceilDiv(a, b) == (a + b - 1) \div b

\* C21: the degree bound used at depth k, by the prover's fri recursion and by
\* the verifier's component loop alike, is ceil(d* / 4^k) for the
\* maxDegreePlus1 d* passed in, and the two hold the same bound at every depth.
C21_DegreeBound ==
    version = "maxDegreePlus1" =>
        /\ proved.fri = ceilDiv(input.maxDegreePlus1, 4 ^ input.depth)
        /\ proved.verify = ceilDiv(input.maxDegreePlus1, 4 ^ input.depth)
        /\ proved.fri = proved.verify

(***************************************************************************)
(* The spot checks of one folded column: fri() opens the rows of the       *)
(* column's matrix at the augmented positions, verify() reads the values   *)
(* at the positions back from them.                                        *)
(***************************************************************************)
ColumnLengths == {4, 8, 16}

\* a column of the length with values that differ from position to position
columnOf(length) == Vec([i \in 1..length |-> (31 * i + 7) % modulus])

\* what fri() puts in columnProof.values and what verify() reads from it
columnValuesOf(cValues, positions, augmentedPositions) ==
    [ augmentedPositions |-> augmentedPositions,
      values |-> rowsToBuffers(transposeVector(cValues, Len(cValues), 1), augmentedPositions),
      columnValues |->
          parseColumnValues(
              rowsToBuffers(transposeVector(cValues, Len(cValues), 1), augmentedPositions),
              positions, augmentedPositions, Len(cValues)) ]

ColumnValues ==
    \E length \in ColumnLengths, m \in 1..3 :
        \E p \in 0..(length - 1), q \in 0..(length - 1), r \in 0..(length - 1) :
            /\ phase = "start"
            /\ phase' = "computed"
            /\ version' = "parseColumnValues"
            /\ input' = [column |-> columnOf(length), positions |-> SubSeq(<<p, q, r>>, 1, m)]
            /\ proved' = columnValuesOf(columnOf(length), SubSeq(<<p, q, r>>, 1, m),
                        getAugmentedPositions(SubSeq(<<p, q, r>>, 1, m), length))
            /\ UNCHANGED << tamper, given, call, calls, first >>

\* C24: for every query position p on a folded column of length C,
\* parseColumnValues applied to the rows the prover put in columnProof (the
\* rows of the C/4 x 4 matrix at the augmented positions) returns column[p].
C24_ColumnValuesRead ==
    version = "parseColumnValues" =>
        /\ Len(proved.columnValues) = Len(input.positions)
        /\ \A i \in 1..Len(input.positions) :
              proved.columnValues[i] = at(input.column, input.positions[i])

\* two positions in the same row and one in another row, read from columns
\* other than the first
C24_Witness ==
    /\ version = "parseColumnValues"
    /\ Len(input.column) = 16
    /\ input.positions = <<5, 13, 2>>
    /\ Len(proved.values) = 2
    /\ proved.columnValues = << at(input.column, 5), at(input.column, 13), at(input.column, 2) >>

\* the index of the first position with the residue
firstOccurrence(positions, rowLength, a) ==
    CHOOSE k \in 1..Len(positions) :
        /\ positions[k] % rowLength = a
        /\ \A j \in 1..(k - 1) : positions[j] % rowLength # a

\* C25: getAugmentedPositions(positions, columnLength) returns the values
\* p mod (columnLength / 4), p ranging over positions, without duplicates and
\* in the order of first occurrence; every returned value is in
\* [0, columnLength / 4).
C25_AugmentedPositions ==
    version = "parseColumnValues" =>
        LET rowLength == Len(input.column) \div 4
            result == proved.augmentedPositions
        IN  /\ {result[i] : i \in 1..Len(result)}
                  = {input.positions[k] % rowLength : k \in 1..Len(input.positions)}
            /\ \A i \in 1..Len(result) : \A j \in 1..Len(result) :
                  /\ i # j => result[i] # result[j]
                  /\ i < j => firstOccurrence(input.positions, rowLength, result[i])
                                  < firstOccurrence(input.positions, rowLength, result[j])
            /\ \A i \in 1..Len(result) : result[i] >= 0 /\ result[i] < rowLength

\* a repeated residue is returned once, and the result is not sorted
C25_Witness ==
    /\ version = "parseColumnValues"
    /\ Len(input.column) = 16
    /\ input.positions = <<7, 1, 3>>
    /\ proved.augmentedPositions = <<3, 1>>

(***************************************************************************)
(* The requests for pseudo-random indexes of one proof: Stark.prove asks   *)
(* for the execution positions, fri() for the positions of every column.   *)
(***************************************************************************)
\* the step counts tried are 2, 4, ..., 2^MaxLogRequestSteps
MaxLogRequestSteps == 9

\* a request for count distinct indexes in [0, max) that are not multiples of
\* exclude (0: none excluded)
Request(count, max, exclude) == [count |-> count, max |-> max, exclude |-> exclude]

\* fri(): the requests of this depth and the depths below, one per column
RECURSIVE friRequests(_, _, _)
friRequests(v, rowCount, friSpotCheckCount) ==
    IF friStops(v, rowCount) THEN <<>>
    ELSE << Request(friSpotCheckCount, rowCount, 0) >>
         \o friRequests(v, rowCount \div 4, friSpotCheckCount)

\* the requests of a Stark with the validated options for a trace of the steps
requestsOf(v, options, steps) ==
    [ error |-> options.error,
      exe |-> Request(spotCheckCountOf(options.exeSpotCheckCount \div 2,
                                       steps * (options.extensionFactor \div 2),
                                       options.extensionFactor \div 2),
                      steps * (options.extensionFactor \div 2),
                      options.extensionFactor \div 2),
      fri |-> friRequests(v, (steps * (options.extensionFactor \div 2)) \div 4,
                          options.friSpotCheckCount \div 2) ]

IndexRequests ==
    \E v \in Versions, k \in 1..MaxLogRequestSteps,
       e \in {Absent, whole(2), whole(8), whole(32)},
       x \in {Absent, whole(1), whole(MAX_EXE_SPOT_CHECK_COUNT)},
       f \in {Absent, whole(1), whole(MAX_FRI_SPOT_CHECK_COUNT)} :
        /\ phase = "start"
        /\ phase' = "computed"
        /\ version' = "getPseudorandomIndexes"
        /\ input' = [ options |-> [extensionFactor |-> e, exeSpotCheckCount |-> x,
                   friSpotCheckCount |-> f, hashAlgorithm |-> NoName],
                   steps |-> 2 ^ k, prover |-> v ]
        /\ proved' = requestsOf(v, validateSecurityOptions(
                    [extensionFactor |-> e, exeSpotCheckCount |-> x,
                    friSpotCheckCount |-> f, hashAlgorithm |-> NoName], 1), 2 ^ k)
        /\ UNCHANGED << tamper, given, call, calls, first >>

\* the indexes in [0, max) that are not multiples of exclude
admissible(r) == IF r.exclude = 0 THEN r.max ELSE r.max - r.max \div r.exclude

\* C27: every request for pseudo-random indexes can be satisfied: the
\* execution request asks for at most N - N / extensionFactor distinct
\* admissible indexes, and at every folding layer the column length is at
\* least 128, hence at least friSpotCheckCount (<= 64).
C27_RequestsSatisfiable ==
    (version = "getPseudorandomIndexes" /\ proved.error = Ok) =>
        /\ proved.exe.count >= 1
        /\ proved.exe.exclude >= 2
        /\ proved.exe.count <= admissible(proved.exe)
        /\ \A i \in 1..Len(proved.fri) :
              /\ proved.fri[i].max >= 128
              /\ proved.fri[i].count <= MAX_FRI_SPOT_CHECK_COUNT
              /\ proved.fri[i].count >= 1
              /\ proved.fri[i].count <= admissible(proved.fri[i])

\* the largest counts, on a proof of three layers whose last column has 128
\* values
C27_Witness ==
    /\ version = "getPseudorandomIndexes"
    /\ proved.error = Ok
    /\ proved.exe.count = MAX_EXE_SPOT_CHECK_COUNT
    /\ Len(proved.fri) = 3
    /\ proved.fri[3] = Request(MAX_FRI_SPOT_CHECK_COUNT, 128, 0)

(***************************************************************************)
(* ExecutionTraceBuilder.compute on its own, for the transition function   *)
(* of the example and input rows for one or more iterations.               *)
(***************************************************************************)
\* the numbers of iterations tried are 1 .. MaxIterations
MaxIterations == 3

\* the steps of one iteration
RoundSteps == {2, 4}

\* the input rows tried
InputRows == {<<1, 1>>, <<1, 2>>, <<3, 5>>}

Compute ==
    \E steps \in RoundSteps, iterations \in 1..MaxIterations :
        \E inputs \in [1..iterations -> InputRows] :
            /\ phase = "start"
            /\ phase' = "computed"
            /\ version' = "compute"
            /\ input' = [roundSteps |-> steps, totalSteps |-> steps * iterations,
                       inputs |-> Vec(inputs)]
            /\ proved' = compute([roundSteps |-> steps, totalSteps |-> steps * iterations],
                                 Vec(inputs))
            /\ UNCHANGED << tamper, given, call, calls, first >>

\* the trace has one row per register, each of length totalSteps, and its
\* column 0 holds the input values of step 0
traceShaped(trace, i) ==
    /\ Len(trace) = registerCount
    /\ \A register \in 1..registerCount : Len(trace[register]) = i.totalSteps
    /\ column(trace, 0) = i.inputs[1]

\* C30 as stated: compute returns one row per input register, each of length
\* totalSteps, whose column 0 holds the input values at step 0 and in which,
\* for every step s in [0, totalSteps - 2], column s + 1 is the transition
\* function applied to column s, for any number of iterations.
C30_EveryColumnFromTheOneBefore ==
    version = "compute" =>
        /\ traceShaped(proved, input)
        /\ \A s \in 0..(input.totalSteps - 2) :
              column(proved, s + 1) = applyTransition(column(proved, s))

\* C30: compute returns one row per input register, each of length
\* totalSteps, whose column 0 holds the input values at step 0 and in which,
\* for every step s in [0, totalSteps - 2], column s + 1 is the transition
\* function applied to column s, except at the first step s of every
\* iteration after the first, where it is the transition function applied
\* to the values the input registers had when read at step s - 1.
C30_ColumnsByIteration ==
    version = "compute" =>
        /\ traceShaped(proved, input)
        /\ \A s \in 0..(input.totalSteps - 2) :
              column(proved, s + 1) =
                  applyTransition(IF s > 0 /\ s % input.roundSteps = 0
                                  THEN getValue(input.inputs, s - 1, input.roundSteps)
                                  ELSE column(proved, s))

\* a trace of two iterations whose second iteration starts from an input row
\* that is not the state the first one ended in
C30_Witness ==
    /\ version = "compute"
    /\ input.totalSteps = 2 * input.roundSteps
    /\ input.roundSteps = 4
    /\ column(proved, 5) = applyTransition(input.inputs[2])
    /\ column(proved, 5) # applyTransition(column(proved, 4))

UnitNext == Compute \/ IndexRequests \/ ColumnValues \/ DegreeBounds \/ ComponentCount \/ SecurityOptions \/ CombinationDegrees \/ RemainderCheck

SpecUnits == Init /\ [][UnitNext]_vars

=============================================================================
